---- MODULE Spec2Model ----
(***************************************************************************)
(* Verification model of the MCP Tailwind Gemini server: the tools/call    *)
(* request handler, the dual-path tool handlers (completion provider path  *)
(* and manual engines) and the JSON extraction they share.                 *)
(*                                                                         *)
(* Texts are sequences of characters.  A character is a one-character      *)
(* string, or an atomic chunk of ordinary text (a word, a file of markup)  *)
(* that holds no brace, quote, colon, comma, bracket, digit or blank.      *)
(***************************************************************************)
EXTENDS Integers, Sequences, FiniteSets, TLC

VARIABLES
    credential,   \* process.env.GEMINI_API_KEY is set
    genAI,        \* gemini.ts module variable genAI: "null" or "handle"
    constructions, \* the number of handles constructed by initializeGemini
    reqs,         \* the tools/call requests in flight, one record per slot
    exText,       \* extractor run: the completion text
    exSpan,       \* extractor run: jsonMatch[0], or <<>> when no match
    exResult,     \* extractor run: the extracted structure
    exPc,         \* extractor run: "off", "ready" or "done"
    mInput,       \* manual-engine run: the arguments of the engine
    mOutput,      \* manual-engine run: the results of its calls so far
    mPc           \* manual-engine run: "off", "ready", "first" or "second"

vars ==
    <<credential, genAI, constructions, reqs, exText, exSpan, exResult, exPc, mInput, mOutput, mPc>>

dispatchVars == <<credential, genAI, constructions, reqs>>
extractVars == <<exText, exSpan, exResult, exPc>>
engineVars == <<mInput, mOutput, mPc>>

(***************************************************************************)
(* Bounds of the model.                                                    *)
(***************************************************************************)
MaxTextLen == 6      \* longest completion text of the extractor runs
MaxTokens == 4       \* most tokens of the class attribute of a one-attribute markup
MaxPairTokens == 2   \* most tokens of each class attribute of a two-attribute markup
MaxDecls == 3        \* most declarations of the rule block of a conversion run
MaxPx == 33          \* largest number of pixels of a spacing declaration
MaxSections == 3     \* most requested sections of a layout run

(***************************************************************************)
(* Sequence helpers.                                                       *)
(***************************************************************************)
RECURSIVE SeqsUpTo(_, _)
SeqsUpTo(S, n) ==
    IF n = 0 THEN {<<>>}
    ELSE LET shorter == SeqsUpTo(S, n - 1)
         IN  shorter \cup {Append(s, c) : s \in {t \in shorter : Len(t) = n - 1}, c \in S}

RECURSIVE Flatten(_)
Flatten(ss) == IF ss = <<>> THEN <<>> ELSE Head(ss) \o Flatten(Tail(ss))

(***************************************************************************)
(* The JSON extraction of optimizeClasses, createTheme and                 *)
(* convertToTailwind: aiResponse.match(/\{[\s\S]*\}/) then JSON.parse.     *)
(***************************************************************************)
LBRACE == "{"
RBRACE == "}"
QUOTE == "\""
COLON == ":"
COMMA == ","
LBRACKET == "["
RBRACKET == "]"
BLANK == " "
BACKTICK == "BACKTICK"    \* the grave accent of markdown code spans, as one chunk
Digits == {"0", "1", "2", "3", "4", "5", "6", "7", "8", "9"}

\* The regular expression's greedy tail [\s\S]*\} from a start position:
\* the last "}" after position i, or 0.
GreedyEnd(t, i) ==
    LET ends == {j \in (i + 1)..Len(t) : t[j] = RBRACE}
    IN  IF ends = {} THEN 0 ELSE CHOOSE j \in ends : \A k \in ends : k <= j

\* The lazy tail [\s\S]*?\}: the first "}" after position i, or 0.
LazyEnd(t, i) ==
    LET ends == {j \in (i + 1)..Len(t) : t[j] = RBRACE}
    IN  IF ends = {} THEN 0 ELSE CHOOSE j \in ends : \A k \in ends : j <= k

RegexTail(t, i) == GreedyEnd(t, i)

\* String.prototype.match with /\{[\s\S]*\}/: the engine tries every start
\* position from the left and returns the first position where the pattern
\* matches.  The result is <<first, last>>, or <<0, 0>> for null.
RECURSIVE MatchFrom(_, _)
MatchFrom(t, i) ==
    IF i > Len(t) THEN <<0, 0>>
    ELSE IF t[i] = LBRACE /\ RegexTail(t, i) # 0 THEN <<i, RegexTail(t, i)>>
    ELSE MatchFrom(t, i + 1)

JsonMatch(t) == MatchFrom(t, 1)

\* JSON.parse.  A parse step returns [ok, val, next]: next is the position
\* after the value.  Values are [k |-> "str", v |-> characters],
\* [k |-> "num", v |-> digits], [k |-> "arr", v |-> values] and
\* [k |-> "obj", v |-> <<key, value>> pairs in source order].
Undefined == [k |-> "undefined"]
ParseFail == [ok |-> FALSE, val |-> Undefined, next |-> 0]

RECURSIVE SkipWs(_, _)
SkipWs(t, i) == IF i <= Len(t) /\ t[i] = BLANK THEN SkipWs(t, i + 1) ELSE i

ParseString(t, i) ==
    LET closes == {j \in (i + 1)..Len(t) : t[j] = QUOTE}
    IN  IF i > Len(t) \/ t[i] # QUOTE \/ closes = {} THEN ParseFail
        ELSE LET j == CHOOSE c \in closes : \A d \in closes : c <= d
             IN  [ok |-> TRUE, val |-> [k |-> "str", v |-> SubSeq(t, i + 1, j - 1)], next |-> j + 1]

RECURSIVE NumberEnd(_, _)
NumberEnd(t, i) == IF i <= Len(t) /\ t[i] \in Digits THEN NumberEnd(t, i + 1) ELSE i

ParseNumber(t, i) ==
    LET e == NumberEnd(t, i)
    IN  IF e = i THEN ParseFail
        ELSE IF t[i] = "0" /\ e > i + 1 THEN ParseFail
        ELSE [ok |-> TRUE, val |-> [k |-> "num", v |-> SubSeq(t, i, e - 1)], next |-> e]

RECURSIVE ParseValue(_, _), ParseMembers(_, _, _), ParseElements(_, _, _)
ParseValue(t, i) ==
    LET j == SkipWs(t, i)
    IN  IF j > Len(t) THEN ParseFail
        ELSE IF t[j] = LBRACE THEN
            LET m == SkipWs(t, j + 1)
            IN  IF m <= Len(t) /\ t[m] = RBRACE
                THEN [ok |-> TRUE, val |-> [k |-> "obj", v |-> <<>>], next |-> m + 1]
                ELSE ParseMembers(t, m, <<>>)
        ELSE IF t[j] = LBRACKET THEN
            LET m == SkipWs(t, j + 1)
            IN  IF m <= Len(t) /\ t[m] = RBRACKET
                THEN [ok |-> TRUE, val |-> [k |-> "arr", v |-> <<>>], next |-> m + 1]
                ELSE ParseElements(t, m, <<>>)
        ELSE IF t[j] = QUOTE THEN ParseString(t, j)
        ELSE IF t[j] \in Digits THEN ParseNumber(t, j)
        ELSE ParseFail

\* The members of an object from position i on (the key's opening quote),
\* up to and including the closing brace.
ParseMembers(t, i, acc) ==
    LET key == ParseString(t, i)
        c == SkipWs(t, key.next)
    IN  IF ~key.ok \/ c > Len(t) \/ t[c] # COLON THEN ParseFail
        ELSE LET val == ParseValue(t, c + 1)
                 e == SkipWs(t, val.next)
                 members == Append(acc, <<key.val.v, val.val>>)
             IN  IF ~val.ok \/ e > Len(t) THEN ParseFail
                 ELSE IF t[e] = RBRACE
                      THEN [ok |-> TRUE, val |-> [k |-> "obj", v |-> members], next |-> e + 1]
                 ELSE IF t[e] = COMMA THEN ParseMembers(t, SkipWs(t, e + 1), members)
                 ELSE ParseFail

\* The elements of an array from position i on, up to and including the
\* closing bracket.
ParseElements(t, i, acc) ==
    LET val == ParseValue(t, i)
        e == SkipWs(t, val.next)
        elements == Append(acc, val.val)
    IN  IF ~val.ok \/ e > Len(t) THEN ParseFail
        ELSE IF t[e] = RBRACKET
             THEN [ok |-> TRUE, val |-> [k |-> "arr", v |-> elements], next |-> e + 1]
        ELSE IF t[e] = COMMA THEN ParseElements(t, e + 1, elements)
        ELSE ParseFail

JsonParse(t) ==
    LET r == ParseValue(t, 1)
    IN  IF r.ok /\ SkipWs(t, r.next) > Len(t) THEN r ELSE ParseFail

\* The extracted structure: Parsed(value), NotFound (match returned null and
\* the handler throws 'No valid JSON found in AI response') or ParseError
\* (JSON.parse throws).  span is jsonMatch[0].
ExtractStructure(t) ==
    LET m == JsonMatch(t)
        span == SubSeq(t, m[1], m[2])
    IN  IF m = <<0, 0>> THEN [tag |-> "NotFound", span |-> <<>>, value |-> Undefined]
        ELSE IF JsonParse(span).ok
             THEN [tag |-> "Parsed", span |-> span, value |-> JsonParse(span).val]
        ELSE [tag |-> "ParseError", span |-> span, value |-> Undefined]

(***************************************************************************)
(* Array and string helpers of the manual engines.  A class token is the   *)
(* sequence of its characters; a class attribute is the sequence of its    *)
(* tokens; markup is the sequence of its class attributes (the text        *)
(* between them plays no part in the engine).                              *)
(***************************************************************************)
StartsWith(s, prefix) ==
    Len(prefix) <= Len(s) /\ SubSeq(s, 1, Len(prefix)) = prefix

Includes(arr, x) == \E i \in 1..Len(arr) : arr[i] = x

IndexOf(arr, x) ==
    IF Includes(arr, x) THEN CHOOSE i \in 1..Len(arr) : arr[i] = x /\ \A j \in 1..(i - 1) : arr[j] # x
    ELSE 0

LastIndexOf(arr, x) ==
    IF Includes(arr, x) THEN CHOOSE i \in 1..Len(arr) : arr[i] = x /\ \A j \in (i + 1)..Len(arr) : arr[j] # x
    ELSE 0

\* [...new Set(arr)]: the first occurrence of every element, in order.
RECURSIVE Unique(_)
Unique(arr) ==
    IF arr = <<>> THEN <<>>
    ELSE LET front == Unique(SubSeq(arr, 1, Len(arr) - 1))
             last == arr[Len(arr)]
         IN  IF Includes(front, last) THEN front ELSE Append(front, last)

\* arr.join(sep) of sequences of characters.
RECURSIVE Join(_, _)
Join(arr, sep) ==
    IF arr = <<>> THEN <<>>
    ELSE IF Len(arr) = 1 THEN arr[1]
    ELSE arr[1] \o sep \o Join(Tail(arr), sep)

(***************************************************************************)
(* The class-optimization manual engine (performManualOptimization).       *)
(***************************************************************************)
\* CONFLICTING_CLASSES, in the order of Object.entries.
ConflictCategories ==
    <<"margin", "padding", "width", "height", "display", "position",
      "textAlign", "fontSize", "fontWeight", "borderRadius">>

CONFLICTING_CLASSES(category) ==
    CASE category = "margin" ->
           << <<"m", "-">>, <<"m", "x", "-">>, <<"m", "y", "-">>, <<"m", "t", "-">>,
              <<"m", "r", "-">>, <<"m", "b", "-">>, <<"m", "l", "-">> >>
      [] category = "padding" ->
           << <<"p", "-">>, <<"p", "x", "-">>, <<"p", "y", "-">>, <<"p", "t", "-">>,
              <<"p", "r", "-">>, <<"p", "b", "-">>, <<"p", "l", "-">> >>
      [] category = "width" -> << <<"w", "-">> >>
      [] category = "height" -> << <<"h", "-">> >>
      [] category = "display" ->
           << <<"b", "l", "o", "c", "k">>,
              <<"i", "n", "l", "i", "n", "e", "-", "b", "l", "o", "c", "k">>,
              <<"i", "n", "l", "i", "n", "e">>,
              <<"f", "l", "e", "x">>,
              <<"i", "n", "l", "i", "n", "e", "-", "f", "l", "e", "x">>,
              <<"g", "r", "i", "d">>,
              <<"i", "n", "l", "i", "n", "e", "-", "g", "r", "i", "d">>,
              <<"h", "i", "d", "d", "e", "n">> >>
      [] category = "position" ->
           << <<"s", "t", "a", "t", "i", "c">>, <<"f", "i", "x", "e", "d">>,
              <<"a", "b", "s", "o", "l", "u", "t", "e">>,
              <<"r", "e", "l", "a", "t", "i", "v", "e">>,
              <<"s", "t", "i", "c", "k", "y">> >>
      [] category = "textAlign" ->
           << <<"t", "e", "x", "t", "-", "l", "e", "f", "t">>,
              <<"t", "e", "x", "t", "-", "c", "e", "n", "t", "e", "r">>,
              <<"t", "e", "x", "t", "-", "r", "i", "g", "h", "t">>,
              <<"t", "e", "x", "t", "-", "j", "u", "s", "t", "i", "f", "y">> >>
      [] category = "fontSize" ->
           << <<"t", "e", "x", "t", "-", "x", "s">>, <<"t", "e", "x", "t", "-", "s", "m">>,
              <<"t", "e", "x", "t", "-", "b", "a", "s", "e">>,
              <<"t", "e", "x", "t", "-", "l", "g">>, <<"t", "e", "x", "t", "-", "x", "l">>,
              <<"t", "e", "x", "t", "-", "2", "x", "l">>, <<"t", "e", "x", "t", "-", "3", "x", "l">>,
              <<"t", "e", "x", "t", "-", "4", "x", "l">>, <<"t", "e", "x", "t", "-", "5", "x", "l">>,
              <<"t", "e", "x", "t", "-", "6", "x", "l">> >>
      [] category = "fontWeight" ->
           << <<"f", "o", "n", "t", "-", "t", "h", "i", "n">>,
              <<"f", "o", "n", "t", "-", "e", "x", "t", "r", "a", "l", "i", "g", "h", "t">>,
              <<"f", "o", "n", "t", "-", "l", "i", "g", "h", "t">>,
              <<"f", "o", "n", "t", "-", "n", "o", "r", "m", "a", "l">>,
              <<"f", "o", "n", "t", "-", "m", "e", "d", "i", "u", "m">>,
              <<"f", "o", "n", "t", "-", "s", "e", "m", "i", "b", "o", "l", "d">>,
              <<"f", "o", "n", "t", "-", "b", "o", "l", "d">>,
              <<"f", "o", "n", "t", "-", "e", "x", "t", "r", "a", "b", "o", "l", "d">>,
              <<"f", "o", "n", "t", "-", "b", "l", "a", "c", "k">> >>
      [] category = "borderRadius" ->
           << <<"r", "o", "u", "n", "d", "e", "d", "-", "n", "o", "n", "e">>,
              <<"r", "o", "u", "n", "d", "e", "d", "-", "s", "m">>,
              <<"r", "o", "u", "n", "d", "e", "d">>,
              <<"r", "o", "u", "n", "d", "e", "d", "-", "m", "d">>,
              <<"r", "o", "u", "n", "d", "e", "d", "-", "l", "g">>,
              <<"r", "o", "u", "n", "d", "e", "d", "-", "x", "l">>,
              <<"r", "o", "u", "n", "d", "e", "d", "-", "2", "x", "l">>,
              <<"r", "o", "u", "n", "d", "e", "d", "-", "3", "x", "l">>,
              <<"r", "o", "u", "n", "d", "e", "d", "-", "f", "u", "l", "l">> >>

\* cls.match(/^p-\d+$/)
IsGeneralPadding(cls) ==
    /\ Len(cls) >= 3
    /\ StartsWith(cls, <<"p", "-">>)
    /\ \A i \in 3..Len(cls) : cls[i] \in Digits

IsPaddingClass(cls) ==
    \/ StartsWith(cls, <<"p", "-">>)
    \/ StartsWith(cls, <<"p", "x", "-">>)
    \/ StartsWith(cls, <<"p", "y", "-">>)
    \/ StartsWith(cls, <<"p", "t", "-">>)
    \/ StartsWith(cls, <<"p", "r", "-">>)
    \/ StartsWith(cls, <<"p", "b", "-">>)
    \/ StartsWith(cls, <<"p", "l", "-">>)

IsAxisPadding(cls) == StartsWith(cls, <<"p", "x", "-">>) \/ StartsWith(cls, <<"p", "y", "-">>)

removeRedundantSpacing(classes) ==
    LET paddingClasses == SelectSeq(classes, IsPaddingClass)
        hasGeneral == \E i \in 1..Len(paddingClasses) : IsGeneralPadding(paddingClasses[i])
        specificToRemove == SelectSeq(paddingClasses, IsAxisPadding)
        Kept(cls) == ~Includes(specificToRemove, cls)
    IN  IF Len(paddingClasses) > 1 /\ hasGeneral
        THEN [classes |-> SelectSeq(classes, Kept), removed |-> specificToRemove]
        ELSE [classes |-> classes, removed |-> <<>>]

\* prefixes.some(prefix => cls.startsWith(prefix) || prefixes.includes(cls))
MatchesCategory(cls, category) ==
    LET prefixes == CONFLICTING_CLASSES(category)
    IN  \E i \in 1..Len(prefixes) : StartsWith(cls, prefixes[i]) \/ Includes(prefixes, cls)

\* One conflict entry: ${category}: resolved conflict between
\* ${matchingClasses.join(', ')} - kept ${last}.
ConflictEntry(category, matchingClasses) ==
    [category |-> category,
     between |-> matchingClasses,
     kept |-> matchingClasses[Len(matchingClasses)]]

\* The forEach of resolveConflicts over the categories from the n-th on; the
\* matching classes are always taken from the classes passed in.
RECURSIVE ResolveFrom(_, _, _)
ResolveFrom(classes, n, acc) ==
    IF n > Len(ConflictCategories) THEN acc
    ELSE LET category == ConflictCategories[n]
             InCategory(cls) == MatchesCategory(cls, category)
             matchingClasses == SelectSeq(classes, InCategory)
             toRemove == SubSeq(matchingClasses, 1, Len(matchingClasses) - 1)
             Kept(cls) == ~Includes(toRemove, cls)
         IN  IF Len(matchingClasses) > 1
             THEN ResolveFrom(classes, n + 1,
                      [classes |-> SelectSeq(acc.classes, Kept),
                       conflicts |-> Append(acc.conflicts, ConflictEntry(category, matchingClasses))])
             ELSE ResolveFrom(classes, n + 1, acc)

resolveConflicts(classes) ==
    ResolveFrom(classes, 1, [classes |-> classes, conflicts |-> <<>>])

IsBorderClass(cls) == StartsWith(cls, <<"b", "o", "r", "d", "e", "r", "-">>)
IsTextClass(cls) == StartsWith(cls, <<"t", "e", "x", "t", "-">>)

generateSuggestions(classes) ==
    (IF Includes(classes, <<"f", "l", "e", "x">>)
        /\ Includes(classes, <<"f", "l", "e", "x", "-", "r", "o", "w">>)
     THEN <<"Remove flex-row as it's the default for flex containers">> ELSE <<>>)
    \o (IF Len(SelectSeq(classes, IsBorderClass)) > 3
        THEN <<"Consider using fewer border utilities or a custom border class">> ELSE <<>>)
    \o (IF Len(SelectSeq(classes, IsTextClass)) > 2
        THEN <<"Consider consolidating text utilities into a custom text class">> ELSE <<>>)

\* The suggestion about flex-row is applied to the class list.
OptimizeAttr_SuggestionsApplied(classes, removeRedundant, mergeConflicts, suggestAlternatives) ==
    LET IsDuplicate(cls) == IndexOf(classes, cls) # LastIndexOf(classes, cls)
        duplicates == IF removeRedundant THEN SelectSeq(classes, IsDuplicate) ELSE <<>>
        redundantRemoved ==
            IF removeRedundant THEN removeRedundantSpacing(Unique(classes))
            ELSE [classes |-> classes, removed |-> <<>>]
        conflictResolution ==
            IF mergeConflicts THEN resolveConflicts(redundantRemoved.classes)
            ELSE [classes |-> redundantRemoved.classes, conflicts |-> <<>>]
        NotFlexRow(cls) == cls # <<"f", "l", "e", "x", "-", "r", "o", "w">>
    IN  [classes |-> IF suggestAlternatives /\ generateSuggestions(conflictResolution.classes) # <<>>
                     THEN SelectSeq(conflictResolution.classes, NotFlexRow)
                     ELSE conflictResolution.classes,
         removed |-> duplicates \o redundantRemoved.removed,
         conflicts |-> conflictResolution.conflicts,
         suggestions |-> IF suggestAlternatives
                         THEN generateSuggestions(conflictResolution.classes) ELSE <<>>]

\* The body of classMatches.forEach for one class attribute.
OptimizeAttr(classes, removeRedundant, mergeConflicts, suggestAlternatives) ==
    LET IsDuplicate(cls) == IndexOf(classes, cls) # LastIndexOf(classes, cls)
        duplicates == IF removeRedundant THEN SelectSeq(classes, IsDuplicate) ELSE <<>>
        redundantRemoved ==
            IF removeRedundant THEN removeRedundantSpacing(Unique(classes))
            ELSE [classes |-> classes, removed |-> <<>>]
        conflictResolution ==
            IF mergeConflicts THEN resolveConflicts(redundantRemoved.classes)
            ELSE [classes |-> redundantRemoved.classes, conflicts |-> <<>>]
    IN  [classes |-> conflictResolution.classes,
         removed |-> duplicates \o redundantRemoved.removed,
         conflicts |-> conflictResolution.conflicts,
         suggestions |-> IF suggestAlternatives
                         THEN generateSuggestions(conflictResolution.classes) ELSE <<>>]

\* The texts a replacement pattern stands for, each as one chunk: the
\* matched class attribute, the markup before it and the markup after it.
MATCHED == "MATCHED"
PRECEDING == "PRECEDING"
FOLLOWING == "FOLLOWING"

\* The replacement text as String.prototype.replace writes it, from the
\* n-th character of a token on: $$ is written as one $, and $&, $BACKTICK
\* and $' as the matched text, the text before it and the text after it.
RECURSIVE SubstituteFrom(_, _)
SubstituteFrom(token, n) ==
    IF n > Len(token) THEN <<>>
    ELSE IF token[n] = "$" /\ n < Len(token) /\ token[n + 1] \in {"$", "&", "'", BACKTICK}
    THEN <<CASE token[n + 1] = "$" -> "$"
             [] token[n + 1] = "&" -> MATCHED
             [] token[n + 1] = BACKTICK -> PRECEDING
             [] OTHER -> FOLLOWING>> \o SubstituteFrom(token, n + 2)
    ELSE <<token[n]>> \o SubstituteFrom(token, n + 1)

GetSubstitution(token) ==
    IF \E i \in 1..Len(token) : token[i] = "$" THEN SubstituteFrom(token, 1) ELSE token

\* result.optimizedHtml.replace(classAttr, optimizedClassAttr): the first
\* class attribute of the markup that reads classAttr is replaced, and the
\* replacement is a string, so that its patterns are substituted.
ReplaceFirst(markup, classAttr, optimizedClassAttr) ==
    IF Includes(markup, classAttr)
    THEN [markup EXCEPT ![IndexOf(markup, classAttr)] =
             [i \in 1..Len(optimizedClassAttr) |-> GetSubstitution(optimizedClassAttr[i])]]
    ELSE markup

\* classMatches.forEach from the n-th class attribute of the input on.
RECURSIVE OptimizeFrom(_, _, _, _, _, _)
OptimizeFrom(html, n, result, removeRedundant, mergeConflicts, suggestAlternatives) ==
    IF n > Len(html) THEN result
    ELSE LET o == OptimizeAttr(html[n], removeRedundant, mergeConflicts, suggestAlternatives)
         IN  OptimizeFrom(html, n + 1,
                 [optimizedHtml |-> ReplaceFirst(result.optimizedHtml, html[n], o.classes),
                  removedClasses |-> result.removedClasses \o o.removed,
                  conflictsResolved |-> result.conflictsResolved \o o.conflicts,
                  suggestions |-> result.suggestions \o o.suggestions,
                  improvements |-> <<>>],
                 removeRedundant, mergeConflicts, suggestAlternatives)

performManualOptimization(html, removeRedundant, mergeConflicts, suggestAlternatives) ==
    OptimizeFrom(html, 1,
        [optimizedHtml |-> html, removedClasses |-> <<>>, conflictsResolved |-> <<>>,
         suggestions |-> <<>>, improvements |-> <<>>],
        removeRedundant, mergeConflicts, suggestAlternatives)


(***************************************************************************)
(* JavaScript values as the handlers read them.  The result of a handler's *)
(* two paths is one kind of value: the parsed JSON object, or the object   *)
(* the manual engine builds.                                               *)
(***************************************************************************)
Str(chars) == [k |-> "str", v |-> chars]
Num(digits) == [k |-> "num", v |-> digits]
Arr(elements) == [k |-> "arr", v |-> elements]
Obj(members) == [k |-> "obj", v |-> members]

\* value[key]: the last member of that key (JSON.parse keeps the last of
\* duplicate keys); undefined for a missing key or a value without members.
Get(value, key) ==
    IF value.k # "obj" THEN Undefined
    ELSE LET hits == {i \in 1..Len(value.v) : value.v[i][1] = key}
         IN  IF hits = {} THEN Undefined
             ELSE value.v[CHOOSE i \in hits : \A j \in hits : j <= i][2]

IsNullish(value) == value.k = "undefined"

IsZero(digits) == \A i \in 1..Len(digits) : digits[i] = "0"

\* Boolean(value)
Truthy(value) ==
    CASE value.k = "undefined" -> FALSE
      [] value.k = "str" -> value.v # <<>>
      [] value.k = "num" -> ~IsZero(value.v)
      [] OTHER -> TRUE

\* Object.entries(value): the members of an object in insertion order, the
\* last value of a repeated key at the key's first position; the indexed
\* elements of an array or a string; nothing for a number.
RECURSIVE DecimalDigits(_)
DecimalDigits(n) ==
    LET d == <<"0", "1", "2", "3", "4", "5", "6", "7", "8", "9">>
    IN  IF n < 10 THEN <<d[n + 1]>> ELSE Append(DecimalDigits(n \div 10), d[(n % 10) + 1])

Entries(value) ==
    CASE value.k = "obj" ->
           LET keys == Unique([i \in 1..Len(value.v) |-> value.v[i][1]])
           IN  [i \in 1..Len(keys) |-> <<keys[i], Get(value, keys[i])>>]
      [] value.k = "arr" ->
           [i \in 1..Len(value.v) |-> <<DecimalDigits(i - 1), value.v[i]>>]
      [] value.k = "str" ->
           [i \in 1..Len(value.v) |-> <<DecimalDigits(i - 1), Str(<<value.v[i]>>)>>]
      [] OTHER -> <<>>

\* String(value), as a template literal renders it.
RECURSIVE ToText(_)
ToText(value) ==
    CASE value.k = "str" -> value.v
      [] value.k = "num" -> value.v
      [] value.k = "arr" -> Join([i \in 1..Len(value.v) |-> ToText(value.v[i])], <<",">>)
      [] value.k = "obj" -> <<"[object Object]">>
      [] OTHER -> <<"undefined">>

\* JSON.stringify(value, null, 6), the indentation left out.
RECURSIVE Stringify(_)
Stringify(value) ==
    CASE value.k = "str" -> <<QUOTE>> \o value.v \o <<QUOTE>>
      [] value.k = "num" -> value.v
      [] value.k = "arr" ->
           <<LBRACKET>> \o Join([i \in 1..Len(value.v) |-> Stringify(value.v[i])], <<COMMA>>)
               \o <<RBRACKET>>
      [] value.k = "obj" ->
           LET es == Entries(value)
           IN  <<LBRACE>>
               \o Join([i \in 1..Len(es) |->
                           <<QUOTE>> \o es[i][1] \o <<QUOTE, COLON>> \o Stringify(es[i][2])],
                       <<COMMA>>)
               \o <<RBRACE>>
      [] OTHER -> <<"undefined">>

\* The outcome of evaluating an expression: a value, or a thrown error with
\* its message.
Returned(value) == [thrown |-> FALSE, value |-> value, message |-> <<>>]
Thrown(message) == [thrown |-> TRUE, value |-> Undefined, message |-> message]

\* value.length > 0 ? value.map(f).join('\n') : fallback, as the result
\* templates use it on a list of the result: f renders one element.
\* Reading length of undefined throws; a non-empty string has no map.
ListSection(value, name, Item(_), fallback) ==
    CASE value.k = "undefined" ->
           Thrown(<<"Cannot read properties of undefined (reading 'length')">>)
      [] value.k = "arr" ->
           IF value.v = <<>> THEN Returned(fallback)
           ELSE Returned(Join([i \in 1..Len(value.v) |-> Item(value.v[i])], <<"\n">>))
      [] value.k = "str" ->
           IF value.v = <<>> THEN Returned(fallback)
           ELSE Thrown(<<name, ".map is not a function">>)
      [] value.k = "obj" ->
           \* an object's length is its member of that name: a number, or a
           \* string of digits, greater than 0 takes the map branch
           LET length == Get(value, <<"length">>)
               positive == /\ length.k \in {"num", "str"}
                           /\ length.v # <<>>
                           /\ \A i \in 1..Len(length.v) : length.v[i] \in Digits
                           /\ ~IsZero(length.v)
           IN  IF positive THEN Thrown(<<name, ".map is not a function">>)
               ELSE Returned(fallback)
      [] OTHER -> Returned(fallback)


(***************************************************************************)
(* Requests.  The arguments of a tools/call request are a record of the    *)
(* fields the client sent, or NoArgs when params.arguments is missing.     *)
(***************************************************************************)
NoArgs == [missing |-> TRUE]

HasArg(args, field) == field \in DOMAIN args

\* const { field = default } = args
Arg(args, field, default) == IF HasArg(args, field) THEN args[field] ELSE default

\* Reading a member of undefined.
MissingMember(name) == Thrown(<<"Cannot read properties of undefined (reading '", name, "')">>)

\* word.charAt(0).toUpperCase() + word.slice(1): the word with the mark of
\* its upper-cased first character.
Capitalize(word) == <<"^", word>>

\* ${cond ? text : ''}
When(cond, text) == IF cond THEN text ELSE <<>>

Letters ==
    {"a", "b", "c", "d", "e", "f", "g", "h", "i", "j", "k", "l", "m", "n", "o", "p", "q", "r",
     "s", "t", "u", "v", "w", "x", "y", "z"}

\* \w
WordChars == Letters \cup Digits \cup {"_"}

\* What a handler has done when it stops: it awaits the completion
\* (await), or it has finished with a result; manual counts the runs of the
\* manual engine.
Awaiting == [await |-> TRUE, result |-> Returned(Undefined), manual |-> 0]
Finished(result, manual) == [await |-> FALSE, result |-> result, manual |-> manual]

\* throw new Error(${prefix}${error.message}) of a handler's outer catch.
Rethrow(prefix, result) ==
    IF result.thrown THEN Thrown(<<prefix>> \o result.message) ELSE result

\* await callGemini(prompt) that threw: the completion carries the message of
\* the error callGemini threw.
CallFailed(completion) == Thrown(completion.message)

(***************************************************************************)
(* optimizeClasses.                                                        *)
(***************************************************************************)
\* The html of a request is a page: its tags and attribute names, one chunk
\* each, and its class attributes.  The markup as text: its class
\* attributes, class="..." each.
RenderAttr(classes) == <<"class=", QUOTE>> \o Join(classes, <<BLANK>>) \o <<QUOTE>>

RenderMarkup(markup) == Join([i \in 1..Len(markup) |-> RenderAttr(markup[i])], <<"\n">>)

RenderConflict(entry) ==
    <<entry.category, ": resolved conflict between ">> \o Join(entry.between, <<COMMA, BLANK>>)
        \o <<" - kept ">> \o entry.kept

\* The OptimizationResult object performManualOptimization returns.
OptimizationResult(tags, r) ==
    Obj(<< <<<<"optimizedHtml">>, Str(tags \o RenderMarkup(r.optimizedHtml))>>,
           <<<<"removedClasses">>, Arr([i \in 1..Len(r.removedClasses) |-> Str(r.removedClasses[i])])>>,
           <<<<"conflictsResolved">>,
             Arr([i \in 1..Len(r.conflictsResolved) |-> Str(RenderConflict(r.conflictsResolved[i]))])>>,
           <<<<"suggestions">>, Arr([i \in 1..Len(r.suggestions) |-> Str(<<r.suggestions[i]>>)])>>,
           <<<<"improvements">>, Arr(<<>>)>> >>)

\* The manual path of optimizeClasses: html.match throws on a missing html.
ManualOptimization(args) ==
    IF ~HasArg(args, "html")
    THEN Thrown(<<"Cannot read properties of undefined (reading 'match')">>)
    ELSE Returned(OptimizationResult(args.html.tags,
             performManualOptimization(args.html.markup,
                 Arg(args, "removeRedundant", TRUE),
                 Arg(args, "mergeConflicts", TRUE),
                 Arg(args, "suggestAlternatives", TRUE))))

CodeItem(value) == <<"- ", BACKTICK>> \o ToText(value) \o <<BACKTICK>>
PlainItem(value) == <<"- ">> \o ToText(value)

\* The return statement of optimizeClasses: the markdown of a result.  The
\* sections are evaluated in the template's order and the first throw wins.
FormatOptimization(result) ==
    LET removed == ListSection(Get(result, <<"removedClasses">>), "result.removedClasses",
                               CodeItem, <<"No redundant classes found">>)
        conflicts == ListSection(Get(result, <<"conflictsResolved">>), "result.conflictsResolved",
                                 PlainItem, <<"No conflicts found">>)
        improvements == ListSection(Get(result, <<"improvements">>), "result.improvements",
                                    PlainItem, <<"No specific improvements applied">>)
        suggestions == ListSection(Get(result, <<"suggestions">>), "result.suggestions",
                                   PlainItem, <<"No additional suggestions">>)
    IN  IF removed.thrown THEN removed
        ELSE IF conflicts.thrown THEN conflicts
        ELSE IF improvements.thrown THEN improvements
        ELSE IF suggestions.thrown THEN suggestions
        ELSE Returned(<<"# Tailwind CSS Class Optimization Results", "## Optimized HTML">>
                      \o ToText(Get(result, <<"optimizedHtml">>))
                      \o <<"### Removed Classes">> \o removed.value
                      \o <<"### Conflicts Resolved">> \o conflicts.value
                      \o <<"### Improvements Made">> \o improvements.value
                      \o <<"### Suggestions">> \o suggestions.value)

\* From the result of a path to the value optimizeClasses returns or throws.
FinishOptimization(result) ==
    Rethrow("Failed to optimize classes: ",
            IF result.thrown THEN result ELSE FormatOptimization(result.value))

optimizeClasses_Start(args, available) ==
    IF available THEN Awaiting
    ELSE Finished(FinishOptimization(ManualOptimization(args)), 1)

\* optimizeClasses without the catch of its inner try: the extraction
\* failure reaches the outer catch.
optimizeClasses_NoFallback(args, completion) ==
    IF ~completion.ok
    THEN Finished(Rethrow("Failed to optimize classes: ", CallFailed(completion)), 0)
    ELSE IF ExtractStructure(completion.text).tag = "Parsed"
    THEN Finished(FinishOptimization(Returned(ExtractStructure(completion.text).value)), 0)
    ELSE Finished(Rethrow("Failed to optimize classes: ",
                          Thrown(<<"No valid JSON found in AI response">>)), 0)

\* optimizeClasses after await callGemini(prompt).
optimizeClasses_Resume(args, completion) ==
    IF ~completion.ok
    THEN Finished(Rethrow("Failed to optimize classes: ", CallFailed(completion)), 0)
    ELSE LET extracted == ExtractStructure(completion.text)
         IN  IF extracted.tag = "Parsed"
             THEN Finished(FinishOptimization(Returned(extracted.value)), 0)
             ELSE Finished(FinishOptimization(ManualOptimization(args)), 1)


(***************************************************************************)
(* createTheme.                                                            *)
(***************************************************************************)
\* The parts of a template literal, evaluated left to right: the text of
\* all of them, or the first throw.
RECURSIVE Template(_)
Template(parts) ==
    IF parts = <<>> THEN Returned(<<>>)
    ELSE IF Head(parts).thrown THEN Head(parts)
    ELSE LET rest == Template(Tail(parts))
         IN  IF rest.thrown THEN rest ELSE Returned(Head(parts).value \o rest.value)

\* object.property of a value that may be undefined.
Read(value, key) ==
    IF IsNullish(value)
    THEN Thrown(<<"Cannot read properties of undefined (reading '">> \o key \o <<"')">>)
    ELSE Returned(Get(value, key))

\* levels.slice(0, count)
Slice0(arr, count) ==
    IF count >= 0 THEN SubSeq(arr, 1, IF count < Len(arr) THEN count ELSE Len(arr))
    ELSE SubSeq(arr, 1, IF Len(arr) + count > 0 THEN Len(arr) + count ELSE 0)

ShadeLevels == <<50, 100, 200, 300, 400, 500, 600, 700, 800, 900>>

\* adjustColorBrightness returns the colour as it is; color.startsWith
\* throws when the colour is undefined.
adjustColorBrightness(color) ==
    IF IsNullish(color)
    THEN Thrown(<<"Cannot read properties of undefined (reading 'startsWith')">>)
    ELSE Returned(color)

generateColorShades(baseColor, count) ==
    LET levels == Slice0(ShadeLevels, count)
    IN  IF levels # <<>> /\ adjustColorBrightness(baseColor).thrown
        THEN adjustColorBrightness(baseColor)
        ELSE Returned(Obj([i \in 1..Len(levels) |->
                              <<DecimalDigits(levels[i]), adjustColorBrightness(baseColor).value>>]))

NeutralShades ==
    Obj(<< <<<<"5", "0">>, Str(<<"#f9fafb">>)>>, <<<<"1", "0", "0">>, Str(<<"#f3f4f6">>)>>,
           <<<<"2", "0", "0">>, Str(<<"#e5e7eb">>)>>, <<<<"3", "0", "0">>, Str(<<"#d1d5db">>)>>,
           <<<<"4", "0", "0">>, Str(<<"#9ca3af">>)>>, <<<<"5", "0", "0">>, Str(<<"#6b7280">>)>>,
           <<<<"6", "0", "0">>, Str(<<"#4b5563">>)>>, <<<<"7", "0", "0">>, Str(<<"#374151">>)>>,
           <<<<"8", "0", "0">>, Str(<<"#1f2937">>)>>, <<<<"9", "0", "0">>, Str(<<"#111827">>)>> >>)

FontSizeEntry(name, size, lineHeight) ==
    <<<<name>>, Arr(<<Str(<<size>>), Obj(<< <<<<"lineHeight">>, Str(<<lineHeight>>)>> >>)>>)>>

ManualTypography ==
    Obj(<< <<<<"fontFamily">>,
             Obj(<< <<<<"sans">>, Arr(<<Str(<<"Inter">>), Str(<<"system-ui">>), Str(<<"sans-serif">>)>>)>>,
                    <<<<"serif">>, Arr(<<Str(<<"Georgia">>), Str(<<"Times">>), Str(<<"serif">>)>>)>>,
                    <<<<"mono">>, Arr(<<Str(<<"Monaco">>), Str(<<"Consolas">>), Str(<<"monospace">>)>>)>> >>)>>,
           <<<<"fontSize">>,
             Obj(<< FontSizeEntry("xs", "0.75rem", "1rem"), FontSizeEntry("sm", "0.875rem", "1.25rem"),
                    FontSizeEntry("base", "1rem", "1.5rem"), FontSizeEntry("lg", "1.125rem", "1.75rem"),
                    FontSizeEntry("xl", "1.25rem", "1.75rem"), FontSizeEntry("2xl", "1.5rem", "2rem"),
                    FontSizeEntry("3xl", "1.875rem", "2.25rem"),
                    FontSizeEntry("4xl", "2.25rem", "2.5rem") >>)>> >>)

ManualSpacing ==
    Obj(<< <<<<"xs">>, Str(<<"0.5rem">>)>>, <<<<"sm">>, Str(<<"0.75rem">>)>>,
           <<<<"md">>, Str(<<"1rem">>)>>, <<<<"lg">>, Str(<<"1.5rem">>)>>,
           <<<<"xl">>, Str(<<"2rem">>)>>, <<<<"2xl">>, Str(<<"3rem">>)>>,
           <<<<"3xl">>, Str(<<"4rem">>)>> >>)

\* The ThemeConfig object of the manual engine.
generateManualTheme(brandColor, count, typography, spacing) ==
    LET primaryColors == generateColorShades(brandColor, count)
    IN  IF primaryColors.thrown THEN primaryColors
        ELSE Returned(Obj(
                 << <<<<"colors">>, Obj(<< <<<<"primary">>, primaryColors.value>>,
                                           <<<<"neutral">>, NeutralShades>> >>)>> >>
                 \o (IF typography THEN << <<<<"typography">>, ManualTypography>> >> ELSE <<>>)
                 \o (IF spacing THEN << <<<<"spacing">>, ManualSpacing>> >> ELSE <<>>)))

\* Object.entries(value) where undefined throws.
EntriesOf(value) ==
    IF IsNullish(value) THEN Thrown(<<"Cannot convert undefined or null to object">>)
    ELSE Returned(Entries(value))

formatColorPalette(colors) ==
    IF EntriesOf(colors).thrown THEN EntriesOf(colors)
    ELSE LET es == Entries(colors)
         IN  Returned(Join([i \in 1..Len(es) |->
                               <<"- **">> \o es[i][1] \o <<"**: ", BACKTICK>> \o ToText(es[i][2])
                                   \o <<BACKTICK>>],
                           <<"\n">>))

formatSpacing(spacing) == formatColorPalette(spacing)

\* One font family line: (fonts as string[]).join(', ').
FontFamilyLine(entry) ==
    IF entry[2].k # "arr" THEN Thrown(<<"fonts.join is not a function">>)
    ELSE Returned(<<"- **">> \o entry[1] \o <<"**: ">>
                  \o Join([i \in 1..Len(entry[2].v) |-> ToText(entry[2].v[i])], <<COMMA, BLANK>>))

\* One font size line: const [size, props] = config; props.lineHeight.
FontSizeLine(entry) ==
    LET config == entry[2]
        items == IF config.k = "arr" THEN config.v
                 ELSE [i \in 1..Len(config.v) |-> Str(<<config.v[i]>>)]
        size == IF Len(items) >= 1 THEN items[1] ELSE Undefined
        props == IF Len(items) >= 2 THEN items[2] ELSE Undefined
    IN  IF config.k \notin {"arr", "str"} THEN Thrown(<<"config is not iterable">>)
        ELSE IF Read(props, <<"lineHeight">>).thrown THEN Read(props, <<"lineHeight">>)
        ELSE Returned(<<"- **">> \o entry[1] \o <<"**: ">> \o ToText(size) \o <<" (line-height: ">>
                      \o ToText(Get(props, <<"lineHeight">>)) \o <<")">>)

formatTypography(typography) ==
    LET families == EntriesOf(Get(typography, <<"fontFamily">>))
        sizes == EntriesOf(Get(typography, <<"fontSize">>))
    IN  IF families.thrown THEN families
        ELSE LET familyLines == Template([i \in 1..Len(families.value) |->
                                             FontFamilyLine(families.value[i])])
             IN  IF familyLines.thrown THEN familyLines
                 ELSE IF sizes.thrown THEN sizes
                 ELSE Template(<<Returned(<<"### Font Families">>), familyLines,
                                 Returned(<<"### Font Sizes">>)>>
                               \o [i \in 1..Len(sizes.value) |-> FontSizeLine(sizes.value[i])])

generateTailwindConfig(themeConfig) ==
    IF Read(themeConfig, <<"colors">>).thrown THEN Read(themeConfig, <<"colors">>)
    ELSE LET typography == Get(themeConfig, <<"typography">>)
             spacing == Get(themeConfig, <<"spacing">>)
         IN  Returned(<<"module.exports = {", "colors: ">> \o Stringify(Get(themeConfig, <<"colors">>))
                      \o (IF Truthy(typography)
                          THEN <<"fontFamily: ">> \o Stringify(Get(typography, <<"fontFamily">>))
                               \o <<"fontSize: ">> \o Stringify(Get(typography, <<"fontSize">>))
                          ELSE <<>>)
                      \o (IF Truthy(spacing) THEN <<"spacing: ">> \o Stringify(spacing) ELSE <<>>)
                      \o <<"}">>)

\* An optional section: ${value ? heading + format(value) : ''}.
OptionalSection(value, heading, Format(_)) ==
    IF Truthy(value) THEN Template(<<Returned(<<heading>>), Format(value)>>) ELSE Returned(<<>>)

\* The statements of createTheme after the two paths: the Tailwind config,
\* then the markdown.
FormatTheme(themeConfig, designSystemNotes, style, includeConfig) ==
    LET tailwindConfig == IF includeConfig THEN generateTailwindConfig(themeConfig)
                          ELSE Returned(<<>>)
        colors == Read(themeConfig, <<"colors">>)
    IN  IF tailwindConfig.thrown THEN tailwindConfig
        ELSE IF colors.thrown THEN colors
        ELSE IF Read(colors.value, <<"primary">>).thrown THEN Read(colors.value, <<"primary">>)
        ELSE Template(
               <<Returned(<<"# Custom Tailwind Theme - ">> \o Capitalize(style) \o <<" Style",
                            "## Design System Overview">> \o designSystemNotes
                          \o <<"## Color Palette", "### Primary Colors">>),
                 formatColorPalette(Get(colors.value, <<"primary">>)),
                 OptionalSection(Get(colors.value, <<"secondary">>), "### Secondary Colors",
                                 formatColorPalette),
                 OptionalSection(Get(colors.value, <<"accent">>), "### Accent Colors",
                                 formatColorPalette),
                 OptionalSection(Get(colors.value, <<"neutral">>), "### Neutral Colors",
                                 formatColorPalette),
                 OptionalSection(Get(themeConfig, <<"typography">>), "## Typography Scale",
                                 formatTypography),
                 OptionalSection(Get(themeConfig, <<"spacing">>), "## Spacing Scale", formatSpacing),
                 Returned(IF includeConfig
                          THEN <<"## Tailwind Configuration">> \o tailwindConfig.value ELSE <<>>),
                 Returned(<<"## Usage Examples">>)>>)

\* Both manual branches of createTheme: the manual theme with its notes.
ManualTheme(args) ==
    LET style == Arg(args, "style", "modern")
        themeConfig == generateManualTheme(Arg(args, "brandColor", Undefined),
                           Arg(args, "colorCount", 9), Arg(args, "typography", TRUE),
                           Arg(args, "spacing", TRUE))
    IN  IF themeConfig.thrown THEN themeConfig
        ELSE FormatTheme(themeConfig.value,
                         <<"Generated ", style, " theme based on ">>
                             \o ToText(Arg(args, "brandColor", Undefined)),
                         style, Arg(args, "includeConfig", TRUE))

createTheme_Start(args, available) ==
    IF available THEN Awaiting
    ELSE Finished(Rethrow("Failed to create theme: ", ManualTheme(args)), 1)

\* createTheme after await callGemini(prompt).
createTheme_Resume(args, completion) ==
    IF ~completion.ok
    THEN Finished(Rethrow("Failed to create theme: ", CallFailed(completion)), 0)
    ELSE LET extracted == ExtractStructure(completion.text)
             notes == Get(extracted.value, <<"designSystemNotes">>)
         IN  IF extracted.tag = "Parsed"
             THEN Finished(Rethrow("Failed to create theme: ",
                      FormatTheme(Get(extracted.value, <<"themeConfig">>),
                                  IF Truthy(notes) THEN ToText(notes) ELSE <<>>,
                                  Arg(args, "style", "modern"),
                                  Arg(args, "includeConfig", TRUE))), 0)
             ELSE Finished(Rethrow("Failed to create theme: ", ManualTheme(args)), 1)


(***************************************************************************)
(* convertToTailwind.  The code to convert is its rule blocks (CSS) or its *)
(* style attributes (HTML): a block has a selector and its declarations,   *)
(* a declaration a property and a value, each a sequence of characters.    *)
(***************************************************************************)
IsSpace(c) == c \in {BLANK, "\n"}

RECURSIVE TrimStart(_)
TrimStart(t) == IF t # <<>> /\ IsSpace(Head(t)) THEN TrimStart(Tail(t)) ELSE t

RECURSIVE TrimEnd(_)
TrimEnd(t) == IF t # <<>> /\ IsSpace(t[Len(t)]) THEN TrimEnd(SubSeq(t, 1, Len(t) - 1)) ELSE t

Trim(t) == TrimStart(TrimEnd(t))

LowerOf(c) ==
    CASE c = "A" -> "a" [] c = "B" -> "b" [] c = "C" -> "c"
      [] c = "D" -> "d" [] c = "E" -> "e" [] c = "F" -> "f" [] OTHER -> c

ToLowerCase(t) == [i \in 1..Len(t) |-> LowerOf(t[i])]

DigitValue(c) ==
    CASE c = "0" -> 0 [] c = "1" -> 1 [] c = "2" -> 2 [] c = "3" -> 3 [] c = "4" -> 4
      [] c = "5" -> 5 [] c = "6" -> 6 [] c = "7" -> 7 [] c = "8" -> 8 [] c = "9" -> 9

\* The length of the run of digits that starts at position i.
RECURSIVE DigitRun(_, _)
DigitRun(t, i) == IF i <= Len(t) /\ t[i] \in Digits THEN 1 + DigitRun(t, i + 1) ELSE 0

RECURSIVE NumberOf(_)
NumberOf(digits) ==
    IF digits = <<>> THEN 0
    ELSE 10 * NumberOf(SubSeq(digits, 1, Len(digits) - 1)) + DigitValue(digits[Len(digits)])

NaN == [nan |-> TRUE, negative |-> FALSE, whole |-> 0, fraction |-> FALSE]

\* The leading decimal number of an unsigned text.
Unsigned(t, negative) ==
    LET n == DigitRun(t, 1)
        dot == n + 1 <= Len(t) /\ t[n + 1] = "."
        m == IF dot THEN DigitRun(t, n + 2) ELSE 0
    IN  IF n = 0 /\ m = 0 THEN NaN
        ELSE [nan |-> FALSE, negative |-> negative, whole |-> NumberOf(SubSeq(t, 1, n)),
              fraction |-> ~IsZero(SubSeq(t, n + 2, n + 1 + m))]

\* parseFloat(value): the leading decimal number of the text after its
\* blanks and its sign; whole is its integer part, fraction tells whether a
\* non-zero fraction follows.  The texts of the model hold no exponent.
ParseFloat(value) ==
    LET t == TrimStart(value)
    IN  IF t # <<>> /\ Head(t) \in {"-", "+"} THEN Unsigned(Tail(t), Head(t) = "-")
        ELSE Unsigned(t, FALSE)

NoClass == <<>>

\* The number is taken to the nearest step below it.
SpacingClass_Rounding(prefix, value) ==
    LET px == ParseFloat(value)
    IN  IF px.nan \/ px.negative \/ px.whole < 4 THEN NoClass
        ELSE IF px.whole >= 32 THEN <<prefix, "8">>
        ELSE <<prefix>> \o DecimalDigits(px.whole \div 4)

\* parseFloat(value) / 16 compared with the seven rem steps.
SpacingClass(prefix, value) ==
    LET px == ParseFloat(value)
    IN  IF px.nan \/ px.fraction \/ px.negative THEN NoClass
        ELSE CASE px.whole = 4 -> <<prefix, "1">>
               [] px.whole = 8 -> <<prefix, "2">>
               [] px.whole = 12 -> <<prefix, "3">>
               [] px.whole = 16 -> <<prefix, "4">>
               [] px.whole = 20 -> <<prefix, "5">>
               [] px.whole = 24 -> <<prefix, "6">>
               [] px.whole = 32 -> <<prefix, "8">>
               [] OTHER -> NoClass

ColorClass(prefix, value) ==
    LET hex == ToLowerCase(value)
    IN  CASE hex = <<"#", "0", "0", "0", "0", "0", "0">> -> <<prefix, "black">>
          [] hex = <<"#", "f", "f", "f", "f", "f", "f">> -> <<prefix, "white">>
          [] hex = <<"#", "e", "f", "4", "4", "4", "4">> -> <<prefix, "red-500">>
          [] hex = <<"#", "3", "b", "8", "2", "f", "6">> -> <<prefix, "blue-500">>
          [] hex = <<"#", "1", "0", "b", "9", "8", "1">> -> <<prefix, "green-500">>
          [] hex = <<"#", "f", "5", "9", "e", "0", "b">> -> <<prefix, "yellow-500">>
          [] OTHER -> NoClass

DisplayClass(value) ==
    CASE value = <<"none">> -> <<"hidden">>
      [] value \in {<<"block">>, <<"inline-block">>, <<"inline">>, <<"flex">>,
                    <<"inline-flex">>, <<"grid">>, <<"inline-grid">>} -> value
      [] OTHER -> NoClass

FontWeightClass(value) ==
    CASE value = <<"1", "0", "0">> -> <<"font-thin">>
      [] value = <<"2", "0", "0">> -> <<"font-extralight">>
      [] value = <<"3", "0", "0">> -> <<"font-light">>
      [] value = <<"4", "0", "0">> -> <<"font-normal">>
      [] value = <<"5", "0", "0">> -> <<"font-medium">>
      [] value = <<"6", "0", "0">> -> <<"font-semibold">>
      [] value = <<"7", "0", "0">> -> <<"font-bold">>
      [] value = <<"8", "0", "0">> -> <<"font-extrabold">>
      [] value = <<"9", "0", "0">> -> <<"font-black">>
      [] OTHER -> NoClass

ConvertibleProperties ==
    {<<"display">>, <<"padding">>, <<"margin">>, <<"color">>, <<"background-color">>,
     <<"font-weight">>}

\* CSS_TO_TAILWIND[property](value): the class, or NoClass for null.
CSS_TO_TAILWIND(property, value) ==
    CASE property = <<"display">> -> DisplayClass(value)
      [] property = <<"padding">> -> SpacingClass("p-", value)
      [] property = <<"margin">> -> SpacingClass("m-", value)
      [] property = <<"color">> -> ColorClass("text-", value)
      [] property = <<"background-color">> -> ColorClass("bg-", value)
      [] property = <<"font-weight">> -> FontWeightClass(value)
      [] OTHER -> NoClass

RenderDecl(decl) == decl.property \o <<COLON>> \o decl.value

RenderBlock(block, format) ==
    LET body == Join([i \in 1..Len(block.decls) |-> RenderDecl(block.decls[i])], <<";">>)
    IN  IF format = "html" THEN <<"style=", QUOTE>> \o body \o <<QUOTE>>
        ELSE block.selector \o <<LBRACE>> \o body \o <<RBRACE>>

RenderCode(blocks, format) ==
    Join([i \in 1..Len(blocks) |-> RenderBlock(blocks[i], format)], <<"\n">>)

\* text.split(':'): the parts between the colons.
RECURSIVE SplitColon(_)
SplitColon(text) ==
    IF \A i \in 1..Len(text) : text[i] # COLON THEN <<text>>
    ELSE LET at == CHOOSE i \in 1..Len(text) :
                       text[i] = COLON /\ \A j \in 1..(i - 1) : text[j] # COLON
         IN  <<SubSeq(text, 1, at - 1)>> \o SplitColon(SubSeq(text, at + 1, Len(text)))

\* const [property, value] = prop.split(':').map(s => s.trim()): the first
\* two parts of the declaration, trimmed; a value ends at its first colon.
Trimmed(decl) ==
    LET parts == SplitColon(decl.property \o <<COLON>> \o decl.value)
    IN  [property |-> Trim(parts[1]), value |-> Trim(parts[2])]

\* The declarations of a block that have a property and a value.

HasBoth(decl) == decl.property # <<>> /\ decl.value # <<>>

Declared(block) == SelectSeq([i \in 1..Len(block.decls) |-> Trimmed(block.decls[i])], HasBoth)

\* A declaration with the class its converter returns.
ConvertDecl(decl) ==
    [property |-> decl.property, value |-> decl.value,
     class |-> CSS_TO_TAILWIND(decl.property, decl.value)]

IsConverted(d) == d.class # NoClass
IsUnconverted(d) == d.class = NoClass

ClassString(converted) == Join([i \in 1..Len(converted) |-> converted[i].class], <<BLANK>>)

ConversionNote(d) ==
    Str(<<"Converted ">> \o d.property \o <<": ">> \o d.value \o <<" -> ">> \o d.class)

UnconvertedStyle(d) == Str(d.property \o <<": ">> \o d.value)

\* What one block contributes, from its declarations and their classes: its
\* text in the converted code, its notes and its unconverted declarations.
BlockResult(block, format, original, converted, rest) ==
    IF format # "html" /\ (block.selector = <<>> \/ block.decls = <<>>)
    THEN [code |-> original, notes |-> <<>>, unconverted |-> <<>>]
    ELSE [code |-> IF converted = <<>> THEN original
                   ELSE IF format = "html"
                   THEN <<"class=", QUOTE>> \o ClassString(converted) \o <<QUOTE>>
                   ELSE <<"/* ">> \o Trim(block.selector)
                        \o <<" */\n/* Use these Tailwind classes: ">> \o ClassString(converted)
                        \o <<" */">>,
          notes |-> IF format = "html"
                    THEN (IF converted = <<>> THEN <<>>
                          ELSE <<Str(<<"Converted inline styles to: ">> \o ClassString(converted))>>)
                    ELSE [i \in 1..Len(converted) |-> ConversionNote(converted[i])],
          unconverted |-> [i \in 1..Len(rest) |-> UnconvertedStyle(rest[i])]]

SplitBlock(block, format, decls) ==
    BlockResult(block, format, RenderBlock(block, format), SelectSeq(decls, IsConverted),
                SelectSeq(decls, IsUnconverted))

ConvertDecls(decls) == [i \in 1..Len(decls) |-> ConvertDecl(decls[i])]

ConvertBlock(block, format) == SplitBlock(block, format, ConvertDecls(Declared(block)))

CombineBlocks(parts) ==
    [code |-> Join([i \in 1..Len(parts) |-> parts[i].code], <<"\n">>),
     notes |-> Flatten([i \in 1..Len(parts) |-> parts[i].notes]),
     unconverted |-> Flatten([i \in 1..Len(parts) |-> parts[i].unconverted])]

\* performManualConversion(code, format): any other format leaves the code
\* as it is.
performManualConversion(code, format) ==
    IF format \notin {"css", "html"}
    THEN [code |-> RenderCode(code, format), notes |-> <<>>, unconverted |-> <<>>]
    ELSE CombineBlocks([i \in 1..Len(code) |-> ConvertBlock(code[i], format)])

ManualConversionResult(manualResult) ==
    Obj(<< <<<<"convertedCode">>, Str(manualResult.code)>>,
           <<<<"conversionNotes">>, Arr(manualResult.notes)>>,
           <<<<"unconvertedStyles">>, Arr(manualResult.unconverted)>> >>)

\* The manual branches of convertToTailwind; code.match throws on a missing
\* code when the format is one the engine converts.
ManualConversion(args) ==
    IF HasArg(args, "code")
    THEN Returned(ManualConversionResult(
             performManualConversion(args.code, Arg(args, "format", "undefined"))))
    ELSE IF Arg(args, "format", "undefined") \in {"css", "html"}
    THEN MissingMember("match")
    ELSE Returned(Obj(<< <<<<"convertedCode">>, Undefined>>,
                         <<<<"conversionNotes">>, Arr(<<>>)>>,
                         <<<<"unconvertedStyles">>, Arr(<<>>)>> >>))

\* value || []
OrEmptyList(value) == IF Truthy(value) THEN value ELSE Arr(<<>>)

\* The return statement of convertToTailwind.
FormatConversion(result, format) ==
    LET notes == ListSection(OrEmptyList(Get(result, <<"conversionNotes">>)), "conversionNotes",
                             PlainItem, <<"No specific conversion notes.">>)
        styles == ListSection(OrEmptyList(Get(result, <<"unconvertedStyles">>)),
                              "unconvertedStyles", CodeItem, <<>>)
    IN  IF notes.thrown THEN notes
        ELSE IF styles.thrown THEN styles
        ELSE Returned(<<"# CSS to Tailwind Conversion", "## Converted Code",
                        IF format = "html" THEN "html" ELSE "css">>
                      \o ToText(Get(result, <<"convertedCode">>))
                      \o <<"## Conversion Summary">> \o notes.value
                      \o (IF styles.value = <<>> THEN <<>>
                          ELSE <<"## Unconverted Styles">> \o styles.value)
                      \o <<"## Usage Tips">>)

FinishConversion(result, args) ==
    Rethrow("Failed to convert CSS: ",
            IF result.thrown THEN result
            ELSE FormatConversion(result.value, Arg(args, "format", "undefined")))

\* convertToTailwind up to its await: format.toUpperCase() of the prompt
\* throws on a missing format.
convertToTailwind_Start(args, available) ==
    IF ~available THEN Finished(FinishConversion(ManualConversion(args), args), 1)
    ELSE IF ~HasArg(args, "format")
    THEN Finished(Rethrow("Failed to convert CSS: ",
             Thrown(<<"Cannot read properties of undefined (reading 'toUpperCase')">>)), 0)
    ELSE Awaiting

\* convertToTailwind after await callGemini(prompt).
convertToTailwind_Resume(args, completion) ==
    IF ~completion.ok
    THEN Finished(Rethrow("Failed to convert CSS: ", CallFailed(completion)), 0)
    ELSE LET extracted == ExtractStructure(completion.text)
         IN  IF extracted.tag = "Parsed"
             THEN Finished(FinishConversion(Returned(extracted.value), args), 0)
             ELSE Finished(FinishConversion(ManualConversion(args), args), 1)


(***************************************************************************)
(* generateComponent.                                                      *)
(***************************************************************************)
RECURSIVE WordRun(_, _)
WordRun(t, i) == IF i <= Len(t) /\ t[i] \in WordChars THEN 1 + WordRun(t, i + 1) ELSE 0

\* code.replace(/BACKTICK{3}[\w]*\n?/g, ''): every fence with its language
\* word and one line break is removed.
IsFence(t, i) ==
    i + 2 <= Len(t) /\ t[i] = BACKTICK /\ t[i + 1] = BACKTICK /\ t[i + 2] = BACKTICK

\* From position i: the text up to the next fence, then the text after it.
RECURSIVE StripFrom(_, _)
StripFrom(t, i) ==
    LET fences == {j \in i..Len(t) : IsFence(t, j)}
        next == CHOOSE j \in fences : \A k \in fences : j <= k
        w == WordRun(t, next + 3)
        nl == IF next + 3 + w <= Len(t) /\ t[next + 3 + w] = "\n" THEN 1 ELSE 0
    IN  IF fences = {} THEN SubSeq(t, i, Len(t))
        ELSE SubSeq(t, i, next - 1) \o StripFrom(t, next + 3 + w + nl)

StripFences(t) == StripFrom(t, 1)

\* The clean-up both paths share: fences removed, then trim().
CleanCode(t) == Trim(StripFences(t))

ButtonBase ==
    "inline-flex items-center justify-center font-medium transition-colors focus:outline-none focus:ring-2 focus:ring-offset-2 disabled:opacity-50 disabled:pointer-events-none"

ButtonVariant(variant) ==
    CASE variant = "secondary" -> "bg-gray-200 text-gray-900 hover:bg-gray-300 focus:ring-gray-500"
      [] variant = "outline" ->
           "border border-gray-300 bg-transparent text-gray-700 hover:bg-gray-50 focus:ring-gray-500"
      [] variant = "ghost" -> "text-gray-700 hover:bg-gray-100 focus:ring-gray-500"
      [] variant = "link" -> "text-blue-600 underline-offset-4 hover:underline focus:ring-blue-500"
      [] OTHER -> "bg-blue-600 text-white hover:bg-blue-700 focus:ring-blue-500"

ButtonSize(size) ==
    CASE size = "xs" -> "h-6 px-2 text-xs rounded"
      [] size = "sm" -> "h-8 px-3 text-sm rounded-md"
      [] size = "lg" -> "h-11 px-6 text-base rounded-md"
      [] size = "xl" -> "h-12 px-8 text-lg rounded-lg"
      [] OTHER -> "h-10 px-4 text-sm rounded-md"

CardBase == "bg-white rounded-lg shadow border border-gray-200 overflow-hidden"

CardVariant(variant) ==
    CASE variant = "primary" -> "shadow-md"
      [] variant = "secondary" -> "shadow-sm"
      [] variant = "outline" -> "border-2"
      [] variant = "ghost" -> "shadow-none border-transparent"
      [] variant = "link" -> "hover:shadow-lg transition-shadow cursor-pointer"
      [] OTHER -> ""

\* COMPONENT_TEMPLATES has two entries.
COMPONENT_TEMPLATES == {"button", "card"}

\* A type without template is given a generic block.
generateFromTemplate_Generic(type, variant, size, framework, responsive, accessibility) ==
    Returned(<<"<div class=", CardBase, " ", CardVariant(variant), ">", "<!-- ", type,
               " content -->", "</div>">>)

generateFromTemplate(type, variant, size, framework, responsive, accessibility) ==
    IF type = "button"
    THEN LET classes == <<ButtonBase, " ", ButtonVariant(variant), " ", ButtonSize(size)>>
         IN  Returned(IF framework = "react"
                      THEN <<"interface ButtonProps", "export function Button", "<button className=">>
                           \o classes \o When(accessibility, <<"aria-label=Button">>)
                           \o <<"{children}</button>">>
                      ELSE <<"<button class=">> \o classes
                           \o When(accessibility, <<"aria-label=Button">>)
                           \o <<"Button Text</button>">>)
    ELSE IF type \notin COMPONENT_TEMPLATES
    THEN Thrown(<<"Template not found for component type: ", type>>)
    ELSE Returned(<<"<div class=", CardBase, " ", CardVariant(variant), ">", "<!-- ", type,
                    " content -->", "</div>">>)

\* The statements of generateComponent after the two paths.
FormatComponent(args, componentCode) ==
    LET framework == Arg(args, "framework", "html")
    IN  Returned(<<"# Generated ", Arg(args, "type", "undefined"), " Component",
                   "**Framework:** ", framework, "**Variant:** ", Arg(args, "variant", "primary"),
                   "**Size:** ", Arg(args, "size", "md"), "fence:", framework>>
                 \o CleanCode(componentCode))

ManualComponent(args) ==
    LET componentCode == generateFromTemplate(Arg(args, "type", "undefined"),
                             Arg(args, "variant", "primary"), Arg(args, "size", "md"),
                             Arg(args, "framework", "html"), Arg(args, "responsive", TRUE),
                             Arg(args, "accessibility", TRUE))
    IN  IF componentCode.thrown THEN componentCode
        ELSE FormatComponent(args, componentCode.value)

generateComponent_Start(args, available) ==
    IF available THEN Awaiting
    ELSE Finished(Rethrow("Failed to generate component: ", ManualComponent(args)), 1)

\* generateComponent after await callGemini(prompt).
generateComponent_Resume(args, completion) ==
    IF ~completion.ok
    THEN Finished(Rethrow("Failed to generate component: ", CallFailed(completion)), 0)
    ELSE Finished(FormatComponent(args, completion.text), 0)

(***************************************************************************)
(* createLayout.                                                           *)
(***************************************************************************)
LayoutTypes == {"dashboard", "landing"}

\* Names that every object literal answers with a member of
\* Object.prototype: table[name] is a function, not undefined.
InheritedMembers == {"constructor", "toString"}

Complexities == {"simple", "medium", "complex"}

\* LAYOUT_TEMPLATES[type][complexity].gridTemplate
LAYOUT_TEMPLATES(type, complexity) ==
    CASE type = "dashboard" /\ complexity = "simple" -> "grid-rows-[auto_1fr] grid-cols-[250px_1fr]"
      [] type = "dashboard" /\ complexity = "medium" ->
           "grid-rows-[auto_1fr_auto] grid-cols-[250px_1fr]"
      [] type = "dashboard" /\ complexity = "complex" ->
           "grid-rows-[auto_1fr_auto] grid-cols-[250px_1fr_300px]"
      [] type = "landing" /\ complexity = "simple" -> "grid-rows-[auto_1fr_auto]"
      [] type = "landing" /\ complexity = "medium" -> "grid-rows-[auto_auto_auto_auto_auto]"
      [] type = "landing" /\ complexity = "complex" ->
           "grid-rows-[auto_auto_auto_auto_auto_auto_auto]"

\* LAYOUT_TEMPLATES[type][complexity].structure
LAYOUT_STRUCTURE(type, complexity) ==
    CASE type = "dashboard" /\ complexity = "simple" -> <<"header", "sidebar", "main">>
      [] type = "dashboard" /\ complexity = "medium" -> <<"header", "sidebar", "main", "footer">>
      [] type = "dashboard" /\ complexity = "complex" ->
           <<"header", "sidebar", "main", "aside", "footer">>
      [] type = "landing" /\ complexity = "simple" -> <<"header", "hero", "footer">>
      [] type = "landing" /\ complexity = "medium" ->
           <<"header", "hero", "features", "cta", "footer">>
      [] type = "landing" /\ complexity = "complex" ->
           <<"header", "hero", "features", "testimonials", "pricing", "cta", "footer">>

HTMLSection(type, section) ==
    CASE section = "header" -> <<"<header>", "<h1>">> \o Capitalize(type) \o <<"</h1>", "</header>">>
      [] section = "sidebar" -> <<"<aside>", "</aside>">>
      [] section = "main" -> <<"<main>", "</main>">>
      [] section = "footer" -> <<"<footer>", "2024 ">> \o Capitalize(type) \o <<"</footer>">>
      [] OTHER -> <<"<section>", "<h2>">> \o Capitalize(section)
                  \o <<"</h2>", "Content for ", section, " section...", "</section>">>

generateHTMLLayout(type, sections, gridTemplate) ==
    <<"<!DOCTYPE html>", "<title>">> \o Capitalize(type)
        \o <<" Layout</title>", "<div class=min-h-screen grid ", gridTemplate, ">">>
        \o Flatten([i \in 1..Len(sections) |-> HTMLSection(type, sections[i])])
        \o <<"</div>", "</html>">>

generateReactSection(section) ==
    CASE section = "header" -> <<"<header className>", "Dashboard", "</header>">>
      [] section = "main" -> <<"<main className>", "{children}", "</main>">>
      [] OTHER -> <<"<section className>", "<h2>">> \o Capitalize(section) \o <<"</h2>", "</section>">>

generateReactLayout(type, sections, gridTemplate) ==
    <<"import React", "interface ">> \o Capitalize(type) \o <<"LayoutProps", "export function ">>
        \o Capitalize(type) \o <<"Layout", "<div className=min-h-screen grid ", gridTemplate, ">">>
        \o Join([i \in 1..Len(sections) |-> generateReactSection(sections[i])], <<"\n">>)
        \o <<"</div>", "export default ">> \o Capitalize(type) \o <<"Layout">>

generateVueLayout(type, sections, gridTemplate) ==
    <<"<template>", "<div class=min-h-screen grid ", gridTemplate, ">">>
        \o Join([i \in 1..Len(sections) |-> <<"<">> \o Capitalize(sections[i]) \o <<"Section />">>],
                <<"\n">>)
        \o <<"</div>", "</template>", "<script setup>">>

generateGenericLayout(sections, framework) ==
    IF framework = "react"
    THEN <<"<div className=min-h-screen>">>
         \o Join([i \in 1..Len(sections) |-> <<"<", sections[i], " />">>], <<"\n">>) \o <<"</div>">>
    ELSE <<"<div class=min-h-screen>">>
         \o Join([i \in 1..Len(sections) |->
                     <<"<section>", "<h2>">> \o Capitalize(sections[i]) \o <<"</h2>", "</section>">>],
                 <<"\n">>)
         \o <<"</div>">>

\* generateTemplateLayout: the table's structure list is not read; the
\* requested sections are laid out.  For a type that names an inherited
\* member the template is a function, truthy, and its entry for the
\* complexity is undefined.
generateTemplateLayout(args) ==
    LET type == Arg(args, "type", "undefined")
        complexity == Arg(args, "complexity", "medium")
        framework == Arg(args, "framework", "html")
        known == HasArg(args, "type") /\ type \in LayoutTypes
        inherited == HasArg(args, "type") /\ type \in InheritedMembers
    IN  IF ~known /\ ~inherited
        THEN (IF ~HasArg(args, "sections") THEN MissingMember("map")
              ELSE Returned(generateGenericLayout(args.sections, framework)))
        ELSE IF inherited \/ complexity \notin Complexities THEN MissingMember("gridTemplate")
        ELSE IF ~HasArg(args, "sections")
        THEN MissingMember(IF framework \in {"react", "vue"} THEN "map" ELSE "forEach")
        ELSE Returned(
               CASE framework = "react" ->
                      generateReactLayout(type, args.sections, LAYOUT_TEMPLATES(type, complexity))
                 [] framework = "vue" ->
                      generateVueLayout(type, args.sections, LAYOUT_TEMPLATES(type, complexity))
                 [] OTHER ->
                      generateHTMLLayout(type, args.sections, LAYOUT_TEMPLATES(type, complexity)))

\* The statements of createLayout after the two paths.
FormatLayout(args, layoutCode) ==
    LET type == Arg(args, "type", "undefined")
        complexity == Arg(args, "complexity", "medium")
        framework == Arg(args, "framework", "html")
    IN  IF ~HasArg(args, "type") THEN MissingMember("charAt")
        ELSE IF ~HasArg(args, "sections") THEN MissingMember("join")
        ELSE Returned(<<"# ">> \o Capitalize(type) \o <<" Layout - ">> \o Capitalize(complexity)
                      \o <<" Complexity", "## Generated Layout", "fence:", framework>>
                      \o CleanCode(layoutCode)
                      \o <<"## Layout Features", "- **Type**: ", type, "- **Complexity**: ",
                           complexity, "- **Framework**: ", framework, "- **Sections**: ">>
                      \o Join([i \in 1..Len(args.sections) |-> <<args.sections[i]>>],
                              <<COMMA, BLANK>>)
                      \o <<"## Responsive Breakpoints", "## Customization Tips",
                           "## Accessibility Features", "## Performance Considerations">>)

ManualLayout(args) ==
    LET layoutCode == generateTemplateLayout(args)
    IN  IF layoutCode.thrown THEN layoutCode ELSE FormatLayout(args, layoutCode.value)

\* createLayout up to its await: sections.join of the prompt throws on
\* missing sections.
createLayout_Start(args, available) ==
    IF ~available THEN Finished(Rethrow("Failed to create layout: ", ManualLayout(args)), 1)
    ELSE IF ~HasArg(args, "sections")
    THEN Finished(Rethrow("Failed to create layout: ", MissingMember("join")), 0)
    ELSE Awaiting

\* createLayout after await callGemini(prompt).
createLayout_Resume(args, completion) ==
    IF ~completion.ok
    THEN Finished(Rethrow("Failed to create layout: ", CallFailed(completion)), 0)
    ELSE Finished(Rethrow("Failed to create layout: ", FormatLayout(args, completion.text)), 0)


(***************************************************************************)
(* analyzeDesign and suggestImprovements.  The page they read is its tags  *)
(* and attribute names, one chunk each, and its class attributes.          *)
(***************************************************************************)
RenderPage(page) == page.tags \o RenderMarkup(page.markup)

\* pattern.test(html) for the tag patterns: a chunk of the page holds it.
HasTag(page, patterns) == \E i \in 1..Len(page.tags) : page.tags[i] \in patterns

\* pattern.test(html) for a pattern of class characters.
HasClassText(page, pattern) ==
    LET t == RenderMarkup(page.markup)
    IN  \E i \in 1..Len(t) :
            i + Len(pattern) - 1 <= Len(t) /\ SubSeq(t, i, i + Len(pattern) - 1) = pattern

SemanticTags == {"<main", "<header", "<nav", "<section", "<article", "<aside", "<footer"}
HeadingTags == {"<h1", "<h2", "<h3", "<h4", "<h5", "<h6"}
LinkTags == {"<a", "<article", "<aside"}
AriaChunks == {"aria-label", "aria-hidden"}

HasResponsiveClasses(page) ==
    \E bp \in {<<"s", "m", ":">>, <<"m", "d", ":">>, <<"l", "g", ":">>, <<"x", "l", ":">>} :
        HasClassText(page, bp)

HasFlexGrid(page) ==
    HasClassText(page, <<"f", "l", "e", "x">>) \/ HasClassText(page, <<"g", "r", "i", "d">>)

HasResponsiveSpacing(page) ==
    \E bp \in {<<"s", "m">>, <<"m", "d">>, <<"l", "g">>} : \E side \in {"p", "m"} :
        HasClassText(page, bp \o <<":", side, "-">>)

\* The reduce over the class attributes: match.split(' ').length each.
RECURSIVE ClassCount(_)
ClassCount(markup) ==
    IF markup = <<>> THEN 0
    ELSE (IF Len(Head(markup)) = 0 THEN 1 ELSE Len(Head(markup))) + ClassCount(Tail(markup))

\* /(\w+-\w+).*\1/ on the text: a word-hyphen-word that occurs again later;
\* it does so exactly when some x-y of three characters does.
HasDuplicateClasses(page) ==
    LET t == RenderMarkup(page.markup)
    IN  \E i \in 1..Len(t) : \E j \in 1..Len(t) :
            /\ i + 2 <= Len(t) /\ j + 2 <= Len(t) /\ j >= i + 3
            /\ t[i] \in WordChars /\ t[i + 1] = "-" /\ t[i + 2] \in WordChars
            /\ SubSeq(t, j, j + 2) = SubSeq(t, i, i + 2)

Mark(good, yes, no) == IF good THEN yes ELSE no

performManualAnalysis(page, checkAccessibility, checkResponsive, checkPerformance) ==
    LET hasImages == HasTag(page, {"<img"})
        hasAltText == IF hasImages THEN HasTag(page, {"alt="}) ELSE TRUE
        classCount == ClassCount(page.markup)
    IN  <<"# Design Analysis Report", "## Structure Analysis",
          "- **Semantic HTML**: ", Mark(HasTag(page, SemanticTags), "Good", "Missing semantic elements"),
          "- **Heading Structure**: ", Mark(HasTag(page, HeadingTags), "Present", "No headings found"),
          "- **Interactive Elements**: ",
          Mark(HasTag(page, {"<button"}) \/ HasTag(page, LinkTags), "Present",
               "No interactive elements")>>
        \o When(checkAccessibility,
             <<"## Accessibility Analysis",
               "- **Image Alt Text**: ", Mark(hasAltText, "Present", "Missing alt attributes"),
               "- **ARIA Labels**: ",
               Mark(HasTag(page, {"aria-label"}), "Present", "Consider adding ARIA labels"),
               "- **Semantic Roles**: ",
               Mark(HasTag(page, {"role="}), "Present", "Consider adding ARIA roles")>>
             \o When(~hasAltText, <<"**Recommendation**: Add descriptive alt text">>))
        \o When(checkResponsive,
             <<"## Responsive Design Analysis",
               "- **Responsive Classes**: ",
               Mark(HasResponsiveClasses(page), "Present", "No responsive breakpoints found"),
               "- **Flexible Layouts**: ",
               Mark(HasFlexGrid(page), "Using Flexbox/Grid", "Consider flexible layouts"),
               "- **Responsive Spacing**: ",
               Mark(HasResponsiveSpacing(page), "Present", "Consider responsive spacing")>>
             \o When(~HasResponsiveClasses(page), <<"**Recommendation**: Add responsive breakpoint classes">>))
        \o When(checkPerformance,
             <<"## Performance Analysis", "- **Class Count**: ">> \o DecimalDigits(classCount)
             \o <<" classes total ", Mark(classCount > 50, "Consider optimization", "Reasonable"),
                  "- **Duplicate Classes**: ",
                  Mark(HasDuplicateClasses(page), "Found duplicates", "No obvious duplicates")>>
             \o When(classCount > 50, <<"**Recommendation**: Consider extracting common class patterns">>))
        \o <<"## General Recommendations">>

\* The page a missing html reads as: pattern.test(undefined) tests the text
\* undefined, which holds no tag and no class.
NoPage == [tags |-> <<"undefined">>, markup |-> <<>>]

\* The manual branch of analyzeDesign: html.match of the performance check
\* throws on a missing html.
ManualAnalysis(args) ==
    IF ~HasArg(args, "html") /\ Arg(args, "checkPerformance", TRUE)
    THEN MissingMember("match")
    ELSE Returned(performManualAnalysis(Arg(args, "html", NoPage),
                      Arg(args, "checkAccessibility", TRUE), Arg(args, "checkResponsive", TRUE),
                      Arg(args, "checkPerformance", TRUE)))

analyzeDesign_Start(args, available) ==
    IF available THEN Awaiting
    ELSE Finished(Rethrow("Failed to analyze design: ", ManualAnalysis(args)), 1)

\* analyzeDesign after await callGemini(prompt).
analyzeDesign_Resume(args, completion) ==
    IF ~completion.ok
    THEN Finished(Rethrow("Failed to analyze design: ", CallFailed(completion)), 0)
    ELSE Finished(Returned(<<"# Design Analysis Report">> \o completion.text), 0)

AllFocusAreas == <<"accessibility", "performance", "ux", "aesthetics", "responsiveness">>

FocusOn(focusAreas, area) == \E i \in 1..Len(focusAreas) : focusAreas[i] = area

generateManualSuggestions(page, focusAreas) ==
    LET classCount == ClassCount(page.markup)
    IN  <<"# Design Improvement Suggestions">>
        \o When(FocusOn(focusAreas, "accessibility"),
             <<"## Accessibility Improvements">>
             \o When(~HasTag(page, {"<main"}), <<"### Add Main Landmark">>)
             \o When(HasTag(page, {"<img"}) /\ ~HasTag(page, {"alt="}), <<"### Add Image Alt Text">>)
             \o When(~HasTag(page, AriaChunks), <<"### Enhance ARIA Support">>))
        \o When(FocusOn(focusAreas, "responsiveness"),
             <<"## Responsive Design Improvements">>
             \o When(~HasResponsiveClasses(page), <<"### Add Responsive Breakpoints">>)
             \o When(~HasFlexGrid(page), <<"### Implement Flexible Layouts">>))
        \o When(FocusOn(focusAreas, "performance"),
             <<"## Performance Optimizations">>
             \o When(classCount > 30,
                  <<"### Optimize Class Usage", "**Issue**: High class count detected (">>
                  \o DecimalDigits(classCount) \o <<" classes)">>))
        \o When(FocusOn(focusAreas, "aesthetics"),
             <<"## Visual Design Enhancements">>
             \o When(~HasClassText(page, <<"s", "h", "a", "d", "o", "w">>), <<"### Add Visual Depth">>)
             \o When(~HasClassText(page, <<"t", "r", "a", "n", "s", "i", "t", "i", "o", "n">>),
                     <<"### Add Smooth Interactions">>))
        \o When(FocusOn(focusAreas, "ux"),
             <<"## User Experience Improvements">>
             \o When(HasTag(page, {"<button"}) /\ ~HasClassText(page, <<"h", "o", "v", "e", "r", ":">>),
                     <<"### Enhance Interactive States">>)
             \o When(~HasClassText(page, <<"f", "o", "c", "u", "s", ":">>),
                     <<"### Improve Keyboard Navigation">>))
        \o <<"## Implementation Priority", "## Next Steps">>

\* The manual branch of suggestImprovements: html.match of the performance
\* area throws on a missing html.
ManualSuggestions(args) ==
    LET focusAreas == Arg(args, "focusAreas", AllFocusAreas)
    IN  IF ~HasArg(args, "html") /\ FocusOn(focusAreas, "performance")
        THEN MissingMember("match")
        ELSE Returned(generateManualSuggestions(Arg(args, "html", NoPage), focusAreas))

suggestImprovements_Start(args, available) ==
    IF available THEN Awaiting
    ELSE Finished(Rethrow("Failed to generate suggestions: ", ManualSuggestions(args)), 1)

\* suggestImprovements after await callGemini(prompt).
suggestImprovements_Resume(args, completion) ==
    IF ~completion.ok
    THEN Finished(Rethrow("Failed to generate suggestions: ", CallFailed(completion)), 0)
    ELSE Finished(Returned(<<"# AI-Powered Design Improvement Suggestions">> \o completion.text), 0)

(***************************************************************************)
(* getComponent and createProject: their own catch returns the error as    *)
(* the text of a response; the insights of the provider are optional.      *)
(***************************************************************************)
\* SHADCN_COMPONENTS: the frameworks and their components.
SHADCN_COMPONENTS(framework) ==
    CASE framework = "react" -> <<"button", "card">>
      [] framework = "svelte" -> <<"button">>
      [] OTHER -> <<>>

Has(list, name) == \E i \in 1..Len(list) : list[i] = name

\* Members every object inherits: components[name] finds them, and they
\* have neither description nor dependencies.
\* The content of getComponent before the insights: a text, or the response
\* the handler returns early or from its catch.
ComponentContent(args) ==
    LET framework == Arg(args, "framework", "react")
        componentName == Arg(args, "componentName", "undefined")
        lang == IF framework = "react" THEN "tsx" ELSE "svelte"
    IN  IF SHADCN_COMPONENTS(framework) = <<>>
        THEN [early |-> TRUE,
              text |-> <<"Framework ", QUOTE, framework, QUOTE,
                         " not supported. Available frameworks: ", "react", ", ", "svelte">>]
        ELSE IF componentName \in InheritedMembers
        THEN [early |-> TRUE,
              text |-> <<"Error getting component: ">> \o MissingMember("length").message]
        ELSE IF ~Has(SHADCN_COMPONENTS(framework), componentName)
        THEN [early |-> TRUE,
              text |-> <<"Component ", QUOTE, componentName, QUOTE, " not found for framework ",
                         QUOTE, framework, QUOTE, ". Available components: ">>
                       \o Join([i \in 1..Len(SHADCN_COMPONENTS(framework)) |->
                                   <<SHADCN_COMPONENTS(framework)[i]>>], <<COMMA, BLANK>>)]
        ELSE [early |-> FALSE,
              text |-> <<"# ", componentName, " Component (", framework, ")", "description:",
                         componentName>>
                       \o When(componentName # "card", <<"## Dependencies">>)
                       \o <<"## Source Code", lang, "source:", componentName>>
                       \o When(Arg(args, "includeDemo", TRUE),
                               <<"## Usage Examples", lang, "demo:", componentName>>)]

\* getComponent up to model.generateContent: the insights are requested
\* when the credential is set.
getComponent_Start(args, available) ==
    IF ComponentContent(args).early \/ ~available
    THEN Finished(Returned(ComponentContent(args).text), 0)
    ELSE Awaiting

\* getComponent after the insights request: a failure is only logged.
getComponent_Resume(args, completion) ==
    Finished(Returned(ComponentContent(args).text
                      \o When(completion.ok, <<"## AI Insights">> \o completion.text)), 0)

PROJECT_TEMPLATES == {"basic", "dashboard", "landing", "blog", "auth"}
PACKAGE_CONFIGS == {"react", "vue", "svelte"}

\* The content of createProject before the project plan.
ProjectContent(args) ==
    LET framework == Arg(args, "framework", "react")
        template == Arg(args, "template", "basic")
        typescript == Arg(args, "typescript", TRUE)
    IN  IF template \notin PROJECT_TEMPLATES
        THEN [early |-> TRUE,
              text |-> <<"Error creating project: ">> \o MissingMember("components").message]
        ELSE IF ~HasArg(args, "projectName")
        THEN [early |-> TRUE,
              text |-> <<"Error creating project: ">> \o MissingMember("toLowerCase").message]
        ELSE IF framework \notin PACKAGE_CONFIGS
        THEN [early |-> TRUE,
              text |-> <<"Error creating project: ">> \o MissingMember("dependencies").message]
        ELSE [early |-> FALSE,
              text |-> <<"# ", args.projectName, " - ", framework, " Project Setup",
                         "Generated project setup for a ", "description:", template,
                         "## 1. Package Configuration", "## 2. Vite Configuration",
                         IF typescript THEN "ts" ELSE "js", "## 3. Tailwind Configuration",
                         "## 4. Global CSS", "## 5. Utility Functions", "## 6. Installation Steps",
                         "## 7. Recommended Components", "components:", template>>
                       \o Arg(args, "components", <<>>)]

createProject_Start(args, available) ==
    IF ProjectContent(args).early \/ ~available
    THEN Finished(Returned(ProjectContent(args).text), 0)
    ELSE Awaiting

\* createProject after the project plan request: a failure is only logged.
createProject_Resume(args, completion) ==
    Finished(Returned(ProjectContent(args).text
                      \o When(completion.ok,
                              <<"## 8. AI-Generated Project Plan">> \o completion.text)), 0)

(***************************************************************************)
(* generatePreview: the headless browser makes the screenshot or fails.    *)
(***************************************************************************)
\* generatePreview after the browser steps; shot is the screenshot, or the
\* steps threw.
generatePreview_Resume(args, browser) ==
    LET darkMode == Arg(args, "darkMode", FALSE)
    IN  Finished(Returned(
            <<"# Component Preview">>
            \o (IF browser.ok
                THEN <<"**Preview Generated**: ">> \o DecimalDigits(Arg(args, "width", 800))
                     \o <<"x">> \o DecimalDigits(Arg(args, "height", 600))
                     \o <<"px ", IF darkMode THEN "(Dark Mode)" ELSE "(Light Mode)",
                          "![Component Preview](data:image/png;base64,">> \o browser.shot \o <<")">>
                ELSE <<"**Note**: Preview screenshot could not be generated.">>)
            \o <<"## HTML Code">>
            \o (IF HasArg(args, "html") THEN RenderPage(args.html) ELSE <<"undefined">>)
            \o When(Arg(args, "responsive", FALSE), <<"## Responsive Breakpoints">>)), 0)


(***************************************************************************)
(* Extractor runs: every completion text of at most MaxTextLen characters  *)
(* over ExAlphabet is extracted once.                                      *)
(***************************************************************************)
ExAlphabet == {LBRACE, RBRACE, QUOTE, COLON, "1"}

NoResult == [tag |-> "none", span |-> <<>>, value |-> Undefined]

ExtractInit ==
    /\ exText \in SeqsUpTo(ExAlphabet, MaxTextLen)
    /\ exSpan = <<>>
    /\ exResult = NoResult
    /\ exPc = "ready"
    /\ credential = TRUE
    /\ genAI = "null"
    /\ constructions = 0
    /\ reqs = <<>>
    /\ mInput = <<>>
    /\ mOutput = <<>>
    /\ mPc = "off"

RunExtract ==
    /\ exPc = "ready"
    /\ exResult' = ExtractStructure(exText)
    /\ exSpan' = ExtractStructure(exText).span
    /\ exPc' = "done"
    /\ UNCHANGED <<exText, dispatchVars, engineVars>>

ExtractNext == RunExtract

SpecExtract == ExtractInit /\ [][ExtractNext]_vars

(***************************************************************************)
(* The provider client of utils/gemini: genAI is null until callGemini     *)
(* constructs it from the credential.                                      *)
(***************************************************************************)
\* An availability check that does not read the credential.
AlwaysAvailable(cred) == TRUE

\* !!process.env.GEMINI_API_KEY
isGeminiAvailable(cred) == cred

\* initializeGemini(): the client, or null without the credential.
initializeGemini(cred) == IF cred THEN "client" ELSE "null"

\* A callGemini that initializes the client on every call.
callGemini_Reinitialize(client, cred) ==
    [genAI |-> initializeGemini(cred),
     constructed |-> IF initializeGemini(cred) = "null" THEN 0 ELSE 1]

\* The first statements of callGemini: if (!genAI) genAI = initializeGemini().
\* genAI is the module variable after them, constructed the number of
\* new GoogleGenerativeAI(apiKey) they ran.
callGemini(client, cred) ==
    IF client = "null"
    THEN [genAI |-> initializeGemini(cred),
          constructed |-> IF initializeGemini(cred) = "null" THEN 0 ELSE 1]
    ELSE [genAI |-> client, constructed |-> 0]

NoCompletion == [ok |-> FALSE, text |-> <<>>, message |-> <<>>]

\* return response.text()
Completed(text) == [ok |-> TRUE, text |-> text, message |-> <<>>]

\* throw new Error('Gemini AI not initialized...') of callGemini.
NotInitialized ==
    [ok |-> FALSE, text |-> <<>>,
     message |-> <<"Gemini AI not initialized. Please set GEMINI_API_KEY environment variable.">>]

\* A catch that rethrows the provider's error as it is.
ProviderError(message) == [ok |-> FALSE, text |-> <<>>, message |-> message]

\* callGemini's catch: throw new Error(Gemini API error: ${error.message}).
GeminiApiError(message) ==
    [ok |-> FALSE, text |-> <<>>, message |-> <<"Gemini API error: ">> \o message]

(***************************************************************************)
(* The dispatcher (setupToolHandlers): the CallTool request handler.       *)
(***************************************************************************)
DualPath ==
    {"optimize_classes", "create_theme", "convert_to_tailwind", "generate_component",
     "create_layout", "analyze_design", "suggest_improvements"}

\* The handlers that ask for insights through a client of their own.
OwnClient == {"get_shadcn_component", "create_project"}

ToolNames == DualPath \cup OwnClient \cup {"generate_preview"}

\* The requests that can be in flight together.
Slots == {"a", "b"}

\* A handler from its call to its first await or its end.
Start(name, args, available) ==
    CASE name = "optimize_classes" -> optimizeClasses_Start(args, available)
      [] name = "create_theme" -> createTheme_Start(args, available)
      [] name = "convert_to_tailwind" -> convertToTailwind_Start(args, available)
      [] name = "generate_component" -> generateComponent_Start(args, available)
      [] name = "create_layout" -> createLayout_Start(args, available)
      [] name = "analyze_design" -> analyzeDesign_Start(args, available)
      [] name = "suggest_improvements" -> suggestImprovements_Start(args, available)
      [] name = "get_shadcn_component" -> getComponent_Start(args, available)
      [] name = "create_project" -> createProject_Start(args, available)

\* Handlers that keep their arguments in one place for all requests: a
\* handler resumes with the arguments of another request of the tool that
\* is waiting too.
Resume_SharedArgs(name, args, completion) ==
    LET others == {t \in Slots : reqs[t].pc = "awaiting" /\ reqs[t].name = name
                                     /\ reqs[t].args # args}
        shared == IF others = {} THEN args ELSE reqs[CHOOSE t \in others : TRUE].args
    IN  CASE name = "optimize_classes" -> optimizeClasses_Resume(shared, completion)
          [] name = "create_theme" -> createTheme_Resume(shared, completion)
          [] name = "convert_to_tailwind" -> convertToTailwind_Resume(shared, completion)
          [] name = "generate_component" -> generateComponent_Resume(shared, completion)
          [] name = "create_layout" -> createLayout_Resume(shared, completion)
          [] name = "analyze_design" -> analyzeDesign_Resume(shared, completion)
          [] name = "suggest_improvements" -> suggestImprovements_Resume(shared, completion)
          [] name = "get_shadcn_component" -> getComponent_Resume(shared, completion)
          [] name = "create_project" -> createProject_Resume(shared, completion)

\* A handler from the end of its await to its end.
Resume(name, args, completion) ==
    CASE name = "optimize_classes" -> optimizeClasses_Resume(args, completion)
      [] name = "create_theme" -> createTheme_Resume(args, completion)
      [] name = "convert_to_tailwind" -> convertToTailwind_Resume(args, completion)
      [] name = "generate_component" -> generateComponent_Resume(args, completion)
      [] name = "create_layout" -> createLayout_Resume(args, completion)
      [] name = "analyze_design" -> analyzeDesign_Resume(args, completion)
      [] name = "suggest_improvements" -> suggestImprovements_Resume(args, completion)
      [] name = "get_shadcn_component" -> getComponent_Resume(args, completion)
      [] name = "create_project" -> createProject_Resume(args, completion)

NoOutcome == [kind |-> "none", text |-> <<>>]

\* The ToolResponse with its single text item.
Response(text) == [kind |-> "response", text |-> text]

\* An error the request handler throws to its caller.
Raised(message) == [kind |-> "raised", text |-> message]

\* A request handler without its catch: the handler's error is thrown on.
DispatchNoCatch(result) ==
    IF result.thrown THEN Raised(result.message) ELSE Response(result.value)

\* The try of the request handler: the handler's response, or the catch's
\* response with the text Error: ${error.message}.
DispatchCatch(result) ==
    IF result.thrown THEN Response(<<"Error: ">> \o result.message) ELSE Response(result.value)

\* A request handler without the check of its arguments.
ValidateArgs_Skipped(name, args) == NoOutcome

\* if (!args) throw new Error(...), before the try.
ValidateArgs(name, args) ==
    IF args = NoArgs THEN Raised(<<"No arguments provided for tool: ", name>>) ELSE NoOutcome

\* A handler that keeps the arguments of the slot's last request.
StaleInput(s, args) ==
    IF reqs[s].outcome.kind # "none" /\ reqs[s].args # NoArgs THEN reqs[s].args ELSE args

\* The handler is called with the arguments of its own request.
HandlerInput(s, args) == args

\* A slot between requests.  After a response the slot keeps the request
\* and its outcome as the record of the last exchange.
Idle ==
    [pc |-> "idle", name |-> "", args |-> NoArgs, invoked |-> FALSE, calls |-> 0, manual |-> 0,
     completion |-> NoCompletion, outcome |-> NoOutcome]

End(r, fin) ==
    [r EXCEPT !.pc = "done", !.manual = fin.manual, !.outcome = DispatchCatch(fin.result)]

\* A tools/call request arrives and runs to its first await or to its end;
\* invoked tells that the switch called the handler of the tool.
Receive(s, name, args) ==
    LET q == [Idle EXCEPT !.name = name, !.args = args]
        r == [q EXCEPT !.invoked = TRUE]
        st == Start(name, HandlerInput(s, args), isGeminiAvailable(credential))
        call == callGemini(genAI, credential)
        client == call.genAI
    IN  /\ reqs[s].pc = "idle"
        /\ IF ValidateArgs(name, args) # NoOutcome
           THEN /\ reqs' = [reqs EXCEPT ![s] = [q EXCEPT !.pc = "done",
                                                         !.outcome = ValidateArgs(name, args)]]
                /\ UNCHANGED <<genAI, constructions>>
           ELSE IF name \notin ToolNames
           THEN /\ reqs' = [reqs EXCEPT ![s] =
                               End(q, Finished(Thrown(<<"Unknown tool: ", name>>), 0))]
                /\ UNCHANGED <<genAI, constructions>>
           ELSE IF name = "generate_preview"
           THEN /\ reqs' = [reqs EXCEPT ![s] = [r EXCEPT !.pc = "browser"]]
                /\ UNCHANGED <<genAI, constructions>>
           ELSE IF ~st.await
           THEN /\ reqs' = [reqs EXCEPT ![s] = End(r, st)]
                /\ UNCHANGED <<genAI, constructions>>
           ELSE IF name \in OwnClient
           THEN /\ reqs' = [reqs EXCEPT ![s] = [r EXCEPT !.pc = "awaiting", !.calls = 1]]
                /\ UNCHANGED <<genAI, constructions>>
           ELSE IF client = "null"
           THEN /\ reqs' = [reqs EXCEPT ![s] =
                               End([r EXCEPT !.completion = NotInitialized],
                                   Resume(name, args, NotInitialized))]
                /\ genAI' = client
                /\ constructions' = constructions + call.constructed
           ELSE /\ reqs' = [reqs EXCEPT ![s] = [r EXCEPT !.pc = "awaiting", !.calls = 1]]
                /\ genAI' = client
                /\ constructions' = constructions + call.constructed
        /\ UNCHANGED <<credential, extractVars, engineVars>>

\* An await that asks the provider once more after a failure.
ContinueRetrying(s, completion) ==
    /\ reqs[s].pc = "awaiting"
    /\ reqs' = [reqs EXCEPT ![s] =
                   IF ~completion.ok /\ reqs[s].calls < 2
                   THEN [reqs[s] EXCEPT !.calls = @ + 1]
                   ELSE End([reqs[s] EXCEPT !.completion = completion],
                            Resume(reqs[s].name, reqs[s].args, completion))]
    /\ UNCHANGED <<credential, genAI, constructions, extractVars, engineVars>>

\* The await of the completion ends with completion.
Continue(s, completion) ==
    /\ reqs[s].pc = "awaiting"
    /\ reqs' = [reqs EXCEPT ![s] =
                   End([reqs[s] EXCEPT !.completion = completion],
                       Resume(reqs[s].name, reqs[s].args, completion))]
    /\ UNCHANGED <<credential, genAI, constructions, extractVars, engineVars>>

\* generateContent resolves with the text.
ProviderReturns(s, text) == Continue(s, Completed(text))

\* generateContent rejects with an error of the message.
ProviderFails(s, message) ==
    Continue(s, IF reqs[s].name \in OwnClient
                THEN [ok |-> FALSE, text |-> <<>>, message |-> message]
                ELSE GeminiApiError(message))

\* The browser steps of generatePreview end.
BrowserEnds(s, browser) ==
    /\ reqs[s].pc = "browser"
    /\ reqs' = [reqs EXCEPT ![s] = End(reqs[s], generatePreview_Resume(reqs[s].args, browser))]
    /\ UNCHANGED <<credential, genAI, constructions, extractVars, engineVars>>

\* launch, newPage, setContent and screenshot succeed.
BrowserReturns(s, shot) == BrowserEnds(s, [ok |-> TRUE, shot |-> shot])

\* One of the browser steps throws.
BrowserFails(s) == BrowserEnds(s, [ok |-> FALSE, shot |-> <<>>])

\* A request handler whose thrown errors never reach the caller.
Deliver_ResponsesOnly(s) ==
    /\ reqs[s].pc = "done"
    /\ reqs[s].outcome.kind = "response"
    /\ reqs' = [reqs EXCEPT ![s].pc = "idle"]
    /\ UNCHANGED <<credential, genAI, constructions, extractVars, engineVars>>

\* The response, or the error, leaves the request handler.
Deliver(s) ==
    /\ reqs[s].pc = "done"
    /\ reqs' = [reqs EXCEPT ![s].pc = "idle"]
    /\ UNCHANGED <<credential, genAI, constructions, extractVars, engineVars>>

(***************************************************************************)
(* The requests and the provider's answers the dispatcher is run on.       *)
(***************************************************************************)
P4 == <<"p", "-", "4">>
PX4 == <<"p", "x", "-", "4">>
FLEX == <<"f", "l", "e", "x">>
MDP2 == <<"m", "d", ":", "p", "-", "2">>

Markup1 == << <<P4, PX4, P4>> >>
Markup2 == << <<FLEX, MDP2>>, <<P4>> >>

Page1 == [tags |-> <<"<main", "<img">>, markup |-> Markup1]
Page2 == [tags |-> <<"<button">>, markup |-> Markup2]

Blue == <<"#", "3", "B", "8", "2", "F", "6">>

Css1 ==
    << [selector |-> <<".btn">>,
        decls |-> << [property |-> <<"padding">>, value |-> <<"1", "6", "px">>],
                     [property |-> <<"color">>, value |-> Blue],
                     [property |-> <<"width">>, value |-> <<"1", "0", "px">>] >>] >>

Requests ==
    { [name |-> "optimize_classes", args |-> [html |-> Page1]],
      [name |-> "optimize_classes", args |-> [html |-> Page2, removeRedundant |-> FALSE]],
      [name |-> "optimize_classes", args |-> [mergeConflicts |-> FALSE]],
      [name |-> "optimize_classes", args |-> NoArgs],
      [name |-> "create_theme",
       args |-> [brandColor |-> Str(Blue), colorCount |-> 5, typography |-> FALSE,
                 spacing |-> FALSE]],
      [name |-> "create_theme", args |-> [brandColor |-> Str(Blue), includeConfig |-> FALSE]],
      [name |-> "create_theme", args |-> [style |-> "minimal"]],
      [name |-> "convert_to_tailwind", args |-> [code |-> Css1, format |-> "css"]],
      [name |-> "convert_to_tailwind", args |-> [code |-> Css1, format |-> "html"]],
      [name |-> "convert_to_tailwind", args |-> [code |-> Css1]],
      [name |-> "convert_to_tailwind", args |-> [format |-> "css"]],
      [name |-> "generate_component", args |-> [type |-> "button"]],
      [name |-> "generate_component", args |-> [type |-> "card", framework |-> "react"]],
      [name |-> "generate_component", args |-> [type |-> "modal"]],
      [name |-> "generate_component", args |-> [type |-> "form", variant |-> "outline"]],
      [name |-> "generate_component", args |-> [type |-> "navigation", framework |-> "react"]],
      [name |-> "generate_component", args |-> [type |-> "table", size |-> "lg"]],
      [name |-> "generate_component", args |-> [type |-> "custom"]],
      [name |-> "create_layout", args |-> [type |-> "dashboard", sections |-> <<"header", "main">>]],
      [name |-> "create_layout",
       args |-> [type |-> "blog", sections |-> <<"hero">>, framework |-> "react"]],
      [name |-> "create_layout",
       args |-> [type |-> "landing", sections |-> <<"hero">>, complexity |-> "huge"]],
      [name |-> "create_layout", args |-> [type |-> "dashboard"]],
      [name |-> "analyze_design", args |-> [html |-> Page1]],
      [name |-> "analyze_design", args |-> [checkPerformance |-> FALSE]],
      [name |-> "suggest_improvements", args |-> [html |-> Page2]],
      [name |-> "suggest_improvements", args |-> [focusAreas |-> <<"ux">>]],
      [name |-> "get_shadcn_component", args |-> [componentName |-> "button"]],
      [name |-> "get_shadcn_component", args |-> [componentName |-> "constructor"]],
      [name |-> "get_shadcn_component", args |-> [componentName |-> "button", framework |-> "vue"]],
      [name |-> "create_project", args |-> [projectName |-> "app"]],
      [name |-> "create_project", args |-> [projectName |-> "app", template |-> "shop"]],
      [name |-> "generate_preview", args |-> [html |-> Page1]],
      [name |-> "generate_preview", args |-> [html |-> Page2, darkMode |-> TRUE]],
      [name |-> "resize_image", args |-> [html |-> Page1]],
      [name |-> "resize_image", args |-> NoArgs] }

\* A member of a JSON object as text.
Member(key, value) == <<QUOTE, key, QUOTE, COLON>> \o value

EmptyList == <<LBRACKET, RBRACKET>>

\* The answers of the provider: prose, a span that is not JSON, the empty
\* object, the object with the fields the handlers ask for, fenced code.
ProseText == <<"S", "o", "r", "r", "y">>
MalformedText == <<"S", "e", "e", BLANK, LBRACE, "x", RBRACE>>
EmptyObjectText == <<LBRACE, RBRACE>>
FullObjectText ==
    <<"H", "e", "r", "e", COLON, BLANK, LBRACE>>
    \o Member("optimizedHtml", <<QUOTE, "x", QUOTE>>) \o <<COMMA>>
    \o Member("removedClasses", <<LBRACKET, QUOTE, "p", "-", "4", QUOTE, RBRACKET>>) \o <<COMMA>>
    \o Member("conflictsResolved", EmptyList) \o <<COMMA>>
    \o Member("improvements", EmptyList) \o <<COMMA>>
    \o Member("suggestions", EmptyList) \o <<COMMA>>
    \o Member("themeConfig",
              <<LBRACE>> \o Member("colors",
                  <<LBRACE>> \o Member("primary",
                      <<LBRACE>> \o Member("5", <<QUOTE, "#", "f", "f", "f", QUOTE>>)
                      \o <<RBRACE>>) \o <<RBRACE>>) \o <<RBRACE>>) \o <<COMMA>>
    \o Member("designSystemNotes", <<QUOTE, "n", QUOTE>>) \o <<COMMA>>
    \o Member("convertedCode", <<QUOTE, "y", QUOTE>>)
    \o <<RBRACE>>
FencedText == <<BACKTICK, BACKTICK, BACKTICK, "h", "t", "m", "l", "\n", "<div>", "\n",
                BACKTICK, BACKTICK, BACKTICK>>

CompletionTexts == {ProseText, MalformedText, EmptyObjectText, FullObjectText, FencedText}

ProviderErrors == {<<"fetch failed">>}

Screenshots == {<<"iVBORw0KGgo">>}

Init ==
    /\ credential \in BOOLEAN
    /\ genAI = "null"
    /\ constructions = 0
    /\ reqs = [s \in Slots |-> Idle]
    /\ exText = <<>>
    /\ exSpan = <<>>
    /\ exResult = NoResult
    /\ exPc = "off"
    /\ mInput = <<>>
    /\ mOutput = <<>>
    /\ mPc = "off"

Next ==
    \/ \E s \in Slots : \E req \in Requests : Receive(s, req.name, req.args)
    \/ \E s \in Slots : \E text \in CompletionTexts : ProviderReturns(s, text)
    \/ \E s \in Slots : \E message \in ProviderErrors : ProviderFails(s, message)
    \/ \E s \in Slots : \E shot \in Screenshots : BrowserReturns(s, shot)
    \/ \E s \in Slots : BrowserFails(s)
    \/ \E s \in Slots : Deliver(s)

Spec == Init /\ [][Next]_vars

\* The dispatcher with its progress, on one request of each kind: answered
\* by the provider or by the fallback, answered through the client of the
\* handler, a preview, an unknown tool and a request without arguments.
LiveRequests ==
    { [name |-> "optimize_classes", args |-> [html |-> Page1]],
      [name |-> "optimize_classes", args |-> [mergeConflicts |-> FALSE]],
      [name |-> "optimize_classes", args |-> NoArgs],
      [name |-> "get_shadcn_component", args |-> [componentName |-> "button"]],
      [name |-> "generate_preview", args |-> [html |-> Page1]],
      [name |-> "resize_image", args |-> [html |-> Page1]] }

LiveTexts == {ProseText, FullObjectText}

LiveNext ==
    \/ \E s \in Slots : \E req \in LiveRequests : Receive(s, req.name, req.args)
    \/ \E s \in Slots : \E text \in LiveTexts : ProviderReturns(s, text)
    \/ \E s \in Slots : \E message \in ProviderErrors : ProviderFails(s, message)
    \/ \E s \in Slots : \E shot \in Screenshots : BrowserReturns(s, shot)
    \/ \E s \in Slots : BrowserFails(s)
    \/ \E s \in Slots : Deliver(s)

\* An awaited completion resolves or rejects, the browser steps of a
\* preview end, and a handler that has ended hands its outcome to the
\* caller.  The rejection of a completion is enabled exactly while the
\* completion is awaited, and the completion's text ends the await as well,
\* so weak fairness of the rejection says that no await lasts forever.
Progress ==
    \A s \in Slots :
        /\ WF_vars(\E message \in ProviderErrors : ProviderFails(s, message))
        /\ WF_vars((\E shot \in Screenshots : BrowserReturns(s, shot)) \/ BrowserFails(s))
        /\ WF_vars(Deliver(s))

SpecLive == Init /\ [][LiveNext]_vars /\ Progress

(***************************************************************************)
(* Runs of the class-optimization manual engine alone: every markup of the *)
(* bounded sets below is optimized, and the optimized markup is optimized  *)
(* a second time with the same flags.                                      *)
(***************************************************************************)
PT2 == <<"p", "t", "-", "2">>
PY4 == <<"p", "y", "-", "4">>
M4 == <<"m", "-", "4">>
MX4 == <<"m", "x", "-", "4">>
BLOCK == <<"b", "l", "o", "c", "k">>
TEXT_LEFT == <<"t", "e", "x", "t", "-", "l", "e", "f", "t">>
TEXT_CENTER == <<"t", "e", "x", "t", "-", "c", "e", "n", "t", "e", "r">>
TEXT_RIGHT == <<"t", "e", "x", "t", "-", "r", "i", "g", "h", "t">>
TEXT_BLUE_500 == <<"t", "e", "x", "t", "-", "b", "l", "u", "e", "-", "5", "0", "0">>
TEXT_BLUE_600 == <<"t", "e", "x", "t", "-", "b", "l", "u", "e", "-", "6", "0", "0">>
FLEX_ROW == <<"f", "l", "e", "x", "-", "r", "o", "w">>

\* The tokens of the markups with one class attribute, and of those with two.
OptTokens == {P4, PX4, PT2, M4, MX4, FLEX, BLOCK}
PairTokens == {P4, PX4, FLEX, BLOCK}

\* The class attribute of the README's optimize_classes example, and the
\* three text alignments.
ReadmeAttr == <<P4, PX4, PY4, TEXT_BLUE_500, TEXT_BLUE_600>>
AlignAttr == <<TEXT_LEFT, TEXT_CENTER, TEXT_RIGHT>>

\* A class attribute that draws the flex-row suggestion and has a duplicate
\* and an axis padding to remove.
FlexRowAttr == <<FLEX, FLEX_ROW, P4, PX4, P4>>

\* content-['$$'], the class of a price mark, with a duplicate beside it.
CONTENT_PRICE == <<"c", "o", "n", "t", "e", "n", "t", "-", "[", "'", "$", "$", "'", "]">>
PriceAttr == <<CONTENT_PRICE, P4, P4>>

\* The markups that are optimized with and without suggestions.
PlainMarkups ==
    {<<a, b>> : a \in SeqsUpTo(PairTokens, MaxPairTokens),
                b \in SeqsUpTo(PairTokens, MaxPairTokens)}
    \cup {<<>>, <<ReadmeAttr>>, <<AlignAttr>>, <<FlexRowAttr>>, <<FlexRowAttr, AlignAttr>>,
          <<PriceAttr>>, <<AlignAttr, PriceAttr>>}

OptMarkups == {<<attr>> : attr \in SeqsUpTo(OptTokens, MaxTokens)} \cup PlainMarkups

OptimizeInit ==
    /\ mInput \in [html : OptMarkups, removeRedundant : BOOLEAN, mergeConflicts : BOOLEAN,
                   suggestAlternatives : {TRUE}]
                  \cup [html : PlainMarkups, removeRedundant : BOOLEAN, mergeConflicts : BOOLEAN,
                        suggestAlternatives : {FALSE}]
    /\ mOutput = <<>>
    /\ mPc = "ready"
    /\ credential = FALSE
    /\ genAI = "null"
    /\ constructions = 0
    /\ reqs = <<>>
    /\ exText = <<>>
    /\ exSpan = <<>>
    /\ exResult = NoResult
    /\ exPc = "off"

\* performManualOptimization(html, removeRedundant, mergeConflicts,
\* suggestAlternatives) on the markup of the run.
RunOptimization ==
    /\ mPc = "ready"
    /\ mOutput' = <<performManualOptimization(mInput.html, mInput.removeRedundant,
                                              mInput.mergeConflicts, mInput.suggestAlternatives)>>
    /\ mPc' = "first"
    /\ UNCHANGED <<mInput, dispatchVars, extractVars>>

\* The engine again, on the optimized markup of the first call.
RunOptimizationAgain ==
    /\ mPc = "first"
    /\ mOutput' = Append(mOutput,
                      performManualOptimization(mOutput[1].optimizedHtml, mInput.removeRedundant,
                                                mInput.mergeConflicts, mInput.suggestAlternatives))
    /\ mPc' = "second"
    /\ UNCHANGED <<mInput, dispatchVars, extractVars>>

OptimizeNext == RunOptimization \/ RunOptimizationAgain

SpecOptimize == OptimizeInit /\ [][OptimizeNext]_vars

(***************************************************************************)
(* Runs of the CSS conversion manual engine alone: rule blocks (or style   *)
(* attributes) over the declarations below, and single padding and margin  *)
(* declarations over a range of pixel values.                              *)
(***************************************************************************)
Decl(property, value) == [property |-> <<property>>, value |-> value]

\* Declarations: converted, without converter, with a value no converter
\* takes, and with a colon in the value.
ConvDecls ==
    {Decl("padding", <<"1", "6", "px">>),
     Decl("display", <<"flex">>),
     Decl("letter-spacing", <<"2", "px">>),
     Decl("padding", <<"1", "0", "px">>),
     Decl("background-image", <<"url(https", COLON, "//cdn/bg.png)">>),
     Decl("color", Blue)}

\* The texts of a number of pixels: 16px, 16, 16.0px, 16.5px, 16rem and
\* its negative.
SpacingValues ==
    UNION {{DecimalDigits(n) \o <<"px">>, DecimalDigits(n), DecimalDigits(n) \o <<".", "0", "px">>,
            DecimalDigits(n) \o <<".", "5", "px">>, DecimalDigits(n) \o <<"rem">>,
            <<"-">> \o DecimalDigits(n) \o <<"px">>} : n \in 0..MaxPx}

Rule(decls) == [selector |-> <<".btn">>, decls |-> decls]

ConvCodes ==
    {<<Rule(decls)>> : decls \in SeqsUpTo(ConvDecls, MaxDecls) \ {<<>>}}
    \cup {<<Rule(<<a>>), Rule(<<b>>)>> : a \in ConvDecls, b \in ConvDecls}
    \cup {<<Rule(<<Decl(property, value)>>)>> :
              property \in {"padding", "margin"}, value \in SpacingValues}

ConvertInit ==
    /\ mInput \in [code : ConvCodes, format : {"css", "html", "scss"}]
    /\ mOutput = <<>>
    /\ mPc = "ready"
    /\ credential = FALSE
    /\ genAI = "null"
    /\ constructions = 0
    /\ reqs = <<>>
    /\ exText = <<>>
    /\ exSpan = <<>>
    /\ exResult = NoResult
    /\ exPc = "off"

\* performManualConversion(code, format) on the code of the run.
RunConversion ==
    /\ mPc = "ready"
    /\ mOutput' = <<performManualConversion(mInput.code, mInput.format)>>
    /\ mPc' = "first"
    /\ UNCHANGED <<mInput, dispatchVars, extractVars>>

ConvertNext == RunConversion

SpecConvert == ConvertInit /\ [][ConvertNext]_vars

(***************************************************************************)
(* Runs of the manual layout engine alone, for the types of the table and  *)
(* one type outside it, every complexity and framework, and the section    *)
(* lists below.  The types outside the table are two of the input schema  *)
(* and one that is no layout type at all.                                  *)
(***************************************************************************)
LayoutSections == {"header", "hero", "footer", "main", "pricing"}

LayoutInit ==
    /\ mInput \in [type : LayoutTypes \cup {"blog", "portfolio", "constructor"},
                   complexity : Complexities,
                   framework : {"html", "react", "vue"},
                   sections : SeqsUpTo(LayoutSections, MaxSections)]
    /\ mOutput = <<>>
    /\ mPc = "ready"
    /\ credential = FALSE
    /\ genAI = "null"
    /\ constructions = 0
    /\ reqs = <<>>
    /\ exText = <<>>
    /\ exSpan = <<>>
    /\ exResult = NoResult
    /\ exPc = "off"

\* generateTemplateLayout(type, sections, complexity, framework)
RunLayout ==
    /\ mPc = "ready"
    /\ mOutput' = <<generateTemplateLayout(mInput)>>
    /\ mPc' = "first"
    /\ UNCHANGED <<mInput, dispatchVars, extractVars>>

LayoutNext == RunLayout

SpecLayout == LayoutInit /\ [][LayoutNext]_vars

(***************************************************************************)
(* Runs of the manual theme engine alone, for every colorCount from 0 to   *)
(* MaxCount, two brand colours and both values of typography and spacing.  *)
(***************************************************************************)
\* minimum and maximum of colorCount in the input schema of create_theme.
MinColorCount == 5

MaxColorCount == 11

MaxCount == 12

ThemeInit ==
    /\ mInput \in [brandColor : {Str(Blue), Str(<<"r", "e", "d">>)}, colorCount : 0..MaxCount,
                   typography : BOOLEAN, spacing : BOOLEAN]
    /\ mOutput = <<>>
    /\ mPc = "ready"
    /\ credential = FALSE
    /\ genAI = "null"
    /\ constructions = 0
    /\ reqs = <<>>
    /\ exText = <<>>
    /\ exSpan = <<>>
    /\ exResult = NoResult
    /\ exPc = "off"

\* generateManualTheme(brandColor, style, colorCount, typography, spacing)
RunTheme ==
    /\ mPc = "ready"
    /\ mOutput' = <<generateManualTheme(mInput.brandColor, mInput.colorCount,
                                        mInput.typography, mInput.spacing)>>
    /\ mPc' = "first"
    /\ UNCHANGED <<mInput, dispatchVars, extractVars>>

ThemeNext == RunTheme

SpecTheme == ThemeInit /\ [][ThemeNext]_vars

(***************************************************************************)
(* IntegrationManager.generateWithBestAvailable: one run for every set of  *)
(* registered integrations and every behaviour of each of them.  The       *)
(* integrations of the constructor answer every error of their provider    *)
(* with a response of their own; an integration registered with            *)
(* addIntegration may reject instead.                                      *)
(***************************************************************************)
preferredOrder == <<"gemini", "openai", "claude">>

IntegrationNames == {"gemini", "openai", "claude"}

\* The behaviours of an integration: its provider answers, its provider
\* fails, or its generateTailwindComponents rejects.
Behaviours == {"answers", "fails", "rejects"}

\* The APIResponse of an integration.
APIResponse(name, success) == [thrown |-> FALSE, from |-> name, success |-> success]

\* throw new Error('No AI integrations available')
NoAIIntegrations == [thrown |-> TRUE, from |-> "", success |-> FALSE]

NoAPIResponse == [thrown |-> FALSE, from |-> "", success |-> FALSE]

\* integration.generateTailwindComponents(prompt): the try returns the
\* component with success: true, the catch returns success: false.
generateTailwindComponents(name, behaviour) ==
    CASE behaviour = "answers" -> APIResponse(name, TRUE)
      [] behaviour = "fails" -> APIResponse(name, FALSE)
      [] OTHER -> [thrown |-> TRUE, from |-> name, success |-> FALSE]

IntegrateInit ==
    /\ mInput \in [registered : SUBSET IntegrationNames,
                   behaviour : [IntegrationNames -> Behaviours]]
    /\ mOutput = [at |-> 1, tried |-> <<>>, result |-> NoAPIResponse]
    /\ mPc = "ready"
    /\ credential = FALSE
    /\ genAI = "null"
    /\ constructions = 0
    /\ reqs = <<>>
    /\ exText = <<>>
    /\ exSpan = <<>>
    /\ exResult = NoResult
    /\ exPc = "off"

\* One turn of the for loop with a registered integration: return await
\* integration.generateTailwindComponents(prompt), or the catch's continue
\* when it rejects.
TryIntegration ==
    /\ mPc = "ready"
    /\ mOutput.at <= Len(preferredOrder)
    /\ preferredOrder[mOutput.at] \in mInput.registered
    /\ LET name == preferredOrder[mOutput.at]
           generated == generateTailwindComponents(name, mInput.behaviour[name])
       IN  /\ mOutput' = [at |-> mOutput.at + 1,
                          tried |-> Append(mOutput.tried, name),
                          result |-> IF generated.thrown THEN NoAPIResponse ELSE generated]
           /\ mPc' = IF generated.thrown THEN "ready" ELSE "first"
    /\ UNCHANGED <<mInput, dispatchVars, extractVars>>

\* One turn of the for loop for a name without integration.
SkipIntegration ==
    /\ mPc = "ready"
    /\ mOutput.at <= Len(preferredOrder)
    /\ preferredOrder[mOutput.at] \notin mInput.registered
    /\ mOutput' = [mOutput EXCEPT !.at = @ + 1]
    /\ UNCHANGED <<mInput, mPc, dispatchVars, extractVars>>

\* throw new Error('No AI integrations available') after the loop.
NoneAvailable ==
    /\ mPc = "ready"
    /\ mOutput.at > Len(preferredOrder)
    /\ mOutput' = [mOutput EXCEPT !.result = NoAIIntegrations]
    /\ mPc' = "first"
    /\ UNCHANGED <<mInput, dispatchVars, extractVars>>

IntegrateNext == TryIntegration \/ SkipIntegration \/ NoneAvailable

SpecIntegrate == IntegrateInit /\ [][IntegrateNext]_vars

(***************************************************************************)
(* The defaults of the tool descriptors: every tool is called without      *)
(* credential on a request that has its required fields only, and then on  *)
(* the same request with one optional field set to the default that the    *)
(* inputSchema of the tool declares for it.                                *)
(***************************************************************************)
\* TOOLS[name].inputSchema.properties[field].default, for the fields that
\* declare one.
InputSchemaDefaults(name) ==
    CASE name = "generate_component" ->
           [framework |-> "react", variant |-> "primary", size |-> "md", theme |-> "light",
            useShadcn |-> TRUE, responsive |-> TRUE, accessibility |-> TRUE]
      [] name = "get_shadcn_component" -> [includeDemo |-> TRUE, framework |-> "react"]
      [] name = "create_project" ->
           [framework |-> "react", typescript |-> TRUE, template |-> "basic"]
      [] name = "optimize_classes" ->
           [removeRedundant |-> TRUE, mergeConflicts |-> TRUE, suggestAlternatives |-> TRUE]
      [] name = "create_theme" ->
           [style |-> "modern", colorCount |-> 9, includeConfig |-> TRUE, typography |-> TRUE,
            spacing |-> TRUE]
      [] name = "analyze_design" ->
           [checkAccessibility |-> TRUE, checkResponsive |-> TRUE, checkPerformance |-> TRUE]
      [] name = "generate_preview" ->
           [width |-> 800, height |-> 600, darkMode |-> FALSE, responsive |-> FALSE]
      [] name = "convert_to_tailwind" -> [preserveCustom |-> FALSE, optimize |-> TRUE]
      [] name = "create_layout" -> [complexity |-> "medium", framework |-> "html"]
      [] OTHER -> <<>>

\* Requests with their required fields only.
DefaultBases ==
    { [name |-> "generate_component", args |-> [type |-> "button"]],
      [name |-> "generate_component", args |-> [type |-> "card"]],
      [name |-> "get_shadcn_component", args |-> [componentName |-> "button"]],
      [name |-> "create_project", args |-> [projectName |-> "app"]],
      [name |-> "optimize_classes", args |-> [html |-> Page1]],
      [name |-> "optimize_classes", args |-> [html |-> Page2]],
      [name |-> "create_theme", args |-> [brandColor |-> Str(Blue)]],
      [name |-> "analyze_design", args |-> [html |-> Page1]],
      [name |-> "analyze_design", args |-> [html |-> Page2]],
      [name |-> "generate_preview", args |-> [html |-> Page1]],
      [name |-> "generate_preview", args |-> [html |-> Page2]],
      [name |-> "convert_to_tailwind", args |-> [code |-> Css1, format |-> "css"]],
      [name |-> "create_layout", args |-> [type |-> "dashboard", sections |-> <<"header", "main">>]],
      [name |-> "create_layout", args |-> [type |-> "landing", sections |-> <<"hero">>]] }

DefaultCases ==
    UNION {{[name |-> b.name, args |-> b.args, field |-> f] :
               f \in DOMAIN InputSchemaDefaults(b.name)} : b \in DefaultBases}

\* The arguments with one more field.
WithField(args, field, value) ==
    [f \in DOMAIN args \cup {field} |-> IF f = field THEN value ELSE args[f]]

\* The handler of the tool run alone without credential; the preview
\* without screenshot.
HandlerAlone(name, args) ==
    IF name = "generate_preview"
    THEN generatePreview_Resume(args, [ok |-> FALSE, shot |-> <<>>])
    ELSE Start(name, args, FALSE)

DefaultsInit ==
    /\ mInput \in DefaultCases
    /\ mOutput = <<>>
    /\ mPc = "ready"
    /\ credential = FALSE
    /\ genAI = "null"
    /\ constructions = 0
    /\ reqs = <<>>
    /\ exText = <<>>
    /\ exSpan = <<>>
    /\ exResult = NoResult
    /\ exPc = "off"

\* The handler on the request that omits the field.
RunOmitted ==
    /\ mPc = "ready"
    /\ mOutput' = <<HandlerAlone(mInput.name, mInput.args).result>>
    /\ mPc' = "first"
    /\ UNCHANGED <<mInput, dispatchVars, extractVars>>

\* The handler on the request that gives the field its declared default.
RunDeclared ==
    /\ mPc = "first"
    /\ mOutput' = Append(mOutput,
                      HandlerAlone(mInput.name,
                                   WithField(mInput.args, mInput.field,
                                             InputSchemaDefaults(mInput.name)[mInput.field])).result)
    /\ mPc' = "second"
    /\ UNCHANGED <<mInput, dispatchVars, extractVars>>

DefaultsNext == RunOmitted \/ RunDeclared

SpecDefaults == DefaultsInit /\ [][DefaultsNext]_vars

(***************************************************************************)
(* generatePreview step by step: every await of the browser block is a     *)
(* step that returns or throws; mOutput counts the browsers that were      *)
(* launched and the browsers that are still open.                          *)
(***************************************************************************)
\* The awaits of the inner try block, in order.
BrowserSteps == <<"launch", "newPage", "setViewport", "setContent", "screenshot", "close">>

\* The steps that are modelled as able to throw.
ThrowingSteps == {"launch", "newPage", "setViewport", "setContent", "screenshot"}

PreviewRequests ==
    [html : {Page1, Page2}, darkMode : BOOLEAN, responsive : BOOLEAN]
    \cup [html : {Page1, Page2}, width : {400}, height : {300}]

NoPreview == [kind |-> "none"]

PreviewInit ==
    /\ mInput \in PreviewRequests
    /\ mOutput = [at |-> 1, launched |-> 0, open |-> 0, shot |-> <<>>, handled |-> "",
                  outcome |-> NoPreview]
    /\ mPc = "try"
    /\ credential = FALSE
    /\ genAI = "null"
    /\ constructions = 0
    /\ reqs = <<>>
    /\ exText = <<>>
    /\ exSpan = <<>>
    /\ exResult = NoResult
    /\ exPc = "off"

\* await puppeteer.launch(...) returns a browser.
LaunchBrowser ==
    /\ mPc = "try"
    /\ BrowserSteps[mOutput.at] = "launch"
    /\ mOutput' = [mOutput EXCEPT !.at = @ + 1, !.launched = @ + 1, !.open = @ + 1]
    /\ UNCHANGED <<mInput, mPc, dispatchVars, extractVars>>

\* await browser.newPage(), page.setViewport(...), page.setContent(...)
\* return.
PageStep ==
    /\ mPc = "try"
    /\ BrowserSteps[mOutput.at] \in {"newPage", "setViewport", "setContent"}
    /\ mOutput' = [mOutput EXCEPT !.at = @ + 1]
    /\ UNCHANGED <<mInput, mPc, dispatchVars, extractVars>>

\* await page.screenshot(...) returns the picture.
TakeScreenshot(shot) ==
    /\ mPc = "try"
    /\ BrowserSteps[mOutput.at] = "screenshot"
    /\ mOutput' = [mOutput EXCEPT !.at = @ + 1, !.shot = shot]
    /\ UNCHANGED <<mInput, mPc, dispatchVars, extractVars>>

\* await browser.close() returns: the end of the try block.
CloseBrowser ==
    /\ mPc = "try"
    /\ BrowserSteps[mOutput.at] = "close"
    /\ mOutput' = [mOutput EXCEPT !.open = @ - 1]
    /\ mPc' = "after"
    /\ UNCHANGED <<mInput, dispatchVars, extractVars>>

\* The awaited step throws: catch (screenshotError) logs and appends the
\* note.
StepThrows ==
    /\ mPc = "try"
    /\ BrowserSteps[mOutput.at] \in ThrowingSteps
    /\ mOutput' = [mOutput EXCEPT !.handled = BrowserSteps[mOutput.at]]
    /\ mPc' = "after"
    /\ UNCHANGED <<mInput, dispatchVars, extractVars>>

\* The HTML code and the breakpoints are appended and the handler returns.
ReturnPreview ==
    /\ mPc = "after"
    /\ mOutput' = [mOutput EXCEPT !.outcome =
                      generatePreview_Resume(mInput,
                          [ok |-> mOutput.handled = "", shot |-> mOutput.shot]).result]
    /\ mPc' = "returned"
    /\ UNCHANGED <<mInput, dispatchVars, extractVars>>

PreviewNext ==
    \/ LaunchBrowser
    \/ PageStep
    \/ \E shot \in Screenshots : TakeScreenshot(shot)
    \/ CloseBrowser
    \/ StepThrows
    \/ ReturnPreview

SpecPreview == PreviewInit /\ [][PreviewNext]_vars

(***************************************************************************)
(* Properties of the extraction.                                           *)
(***************************************************************************)
BracePositions(t, b) == {i \in 1..Len(t) : t[i] = b}

Leftmost(t) ==
    IF BracePositions(t, LBRACE) = {} THEN 0
    ELSE CHOOSE i \in BracePositions(t, LBRACE) : \A j \in BracePositions(t, LBRACE) : i <= j

Rightmost(t) ==
    IF BracePositions(t, RBRACE) = {} THEN 0
    ELSE CHOOSE i \in BracePositions(t, RBRACE) : \A j \in BracePositions(t, RBRACE) : j <= i

BracesAbsent(t) == BracePositions(t, LBRACE) = {} /\ BracePositions(t, RBRACE) = {}

\* Every character counts: the braces of t are balanced when no prefix closes
\* more braces than it opens and the whole text closes all it opens.
RECURSIVE Depth(_, _)
Depth(t, n) ==
    IF n = 0 THEN 0
    ELSE Depth(t, n - 1) + (IF t[n] = LBRACE THEN 1 ELSE IF t[n] = RBRACE THEN -1 ELSE 0)

BracesBalanced(t) == Depth(t, Len(t)) = 0 /\ \A n \in 0..Len(t) : Depth(t, n) >= 0

\* Only the braces outside string literals count.
RECURSIVE InString(_, _)
InString(t, n) == IF n = 0 THEN FALSE ELSE (t[n] = QUOTE) # InString(t, n - 1)

RECURSIVE OuterDepth(_, _)
OuterDepth(t, n) ==
    IF n = 0 THEN 0
    ELSE OuterDepth(t, n - 1)
         + (IF InString(t, n) THEN 0
            ELSE IF t[n] = LBRACE THEN 1 ELSE IF t[n] = RBRACE THEN -1 ELSE 0)

OuterBalanced(t) == OuterDepth(t, Len(t)) = 0 /\ \A n \in 0..Len(t) : OuterDepth(t, n) >= 0

\* C4 as stated: a completion text whose braces are unbalanced or absent is
\* never extracted to a parsed value.
C4_UnbalancedNeverParsed ==
    (exPc = "done" /\ (BracesAbsent(exText) \/ ~BracesBalanced(exText)))
        => exResult.tag # "Parsed"

\* C4 amended: the extracted span runs from the leftmost "{" to the
\* rightmost "}"; the result is NotFound exactly when the text has no "{" or
\* no "}" after its leftmost "{"; and a parsed value comes only from a span
\* whose braces outside string literals are balanced.  Braces before or
\* after the span, or inside string literals, do not prevent a parsed value.
C4_SpanLeftmostToRightmost ==
    exPc = "done" =>
        /\ (exResult.tag = "NotFound"
              <=> (Leftmost(exText) = 0 \/ Rightmost(exText) < Leftmost(exText)))
        /\ (exResult.tag # "NotFound"
              => exSpan = SubSeq(exText, Leftmost(exText), Rightmost(exText)))
        /\ (exResult.tag = "Parsed" => OuterBalanced(exSpan))
        /\ (BracesAbsent(exText) => exResult.tag = "NotFound")

\* A text with unbalanced braces has been extracted to a parsed value.
C4_Witness ==
    /\ exPc = "done"
    /\ ~BracesBalanced(exText)
    /\ exResult.tag = "Parsed"

(***************************************************************************)
(* Properties of the dispatcher and its handlers.                          *)
(***************************************************************************)
Extracting == {"optimize_classes", "create_theme", "convert_to_tailwind"}

\* The request of slot s has its outcome.
Answered(s) == reqs[s].outcome.kind # "none"

\* The completion of the request of slot s failed at the provider.
ProviderFailed(s) ==
    /\ reqs[s].calls = 1
    /\ ~reqs[s].completion.ok
    /\ reqs[s].completion.message # <<>>

\* The completion succeeded and its text does not extract to a parsed value.
Unparsable(s) ==
    /\ reqs[s].name \in Extracting
    /\ reqs[s].completion.ok
    /\ ExtractStructure(reqs[s].completion.text).tag # "Parsed"

\* What the client gets for the request on the manual path, the credential
\* absent.
ManualResponse(name, args) == DispatchCatch(Start(name, args, FALSE).result)

\* The prefix of a handler's outer catch.
FailedTo(name) ==
    CASE name = "optimize_classes" -> "Failed to optimize classes: "
      [] name = "create_theme" -> "Failed to create theme: "
      [] name = "convert_to_tailwind" -> "Failed to convert CSS: "
      [] name = "generate_component" -> "Failed to generate component: "
      [] name = "create_layout" -> "Failed to create layout: "
      [] name = "analyze_design" -> "Failed to analyze design: "
      [] name = "suggest_improvements" -> "Failed to generate suggestions: "

C2_ExtractionFailureEqualsManual ==
    \A s \in Slots :
        (Unparsable(s) /\ Answered(s))
            => /\ reqs[s].outcome = ManualResponse(reqs[s].name, reqs[s].args)
               /\ reqs[s].outcome.kind = "response"
               /\ reqs[s].manual = 1

C2_Witness ==
    \E s \in Slots : \E t \in Slots :
        /\ Unparsable(s) /\ Answered(s)
        /\ ExtractStructure(reqs[s].completion.text).tag = "ParseError"
        /\ reqs[s].name = "optimize_classes" /\ reqs[s].outcome.text[1] # "Error: "
        /\ Unparsable(t) /\ Answered(t)
        /\ ExtractStructure(reqs[t].completion.text).tag = "NotFound"

\* The fields a handler reads from the parsed value.
NeededFields(name) ==
    CASE name = "optimize_classes" -> {<<"optimizedHtml">>, <<"removedClasses">>}
      [] name = "create_theme" -> {<<"themeConfig">>}
      [] name = "convert_to_tailwind" -> {<<"convertedCode">>}

\* The completion parsed to a value without a field the handler needs.
FieldsMissing(s) ==
    /\ reqs[s].name \in Extracting
    /\ reqs[s].completion.ok
    /\ ExtractStructure(reqs[s].completion.text).tag = "Parsed"
    /\ \E field \in NeededFields(reqs[s].name) :
           IsNullish(Get(ExtractStructure(reqs[s].completion.text).value, field))

\* C3: when the completion parses to a JSON object without the fields the
\* handler needs, the handler falls through to the manual engine as for a
\* parse error: the client gets the manual-path response.
C3_MissingFieldsFallBack ==
    \A s \in Slots :
        (FieldsMissing(s) /\ Answered(s))
            => /\ reqs[s].manual = 1
               /\ reqs[s].outcome = ManualResponse(reqs[s].name, reqs[s].args)

\* C5: a request without arguments gets an error result as its response;
\* nothing is thrown past the request handler.
C5_MissingArgsAnswered ==
    \A s \in Slots :
        (reqs[s].args = NoArgs /\ Answered(s))
            => /\ reqs[s].outcome.kind = "response"
               /\ reqs[s].outcome.text[1] = "Error: "

\* C6: a request for a tool name that is not registered, its arguments
\* present, gets the response whose one text is Error: Unknown tool: <name>,
\* and nothing is thrown past the request handler.
C6_UnknownToolAnswered ==
    \A s \in Slots :
        (reqs[s].name \notin ToolNames /\ reqs[s].args # NoArgs /\ Answered(s))
            => reqs[s].outcome = Response(<<"Error: ", "Unknown tool: ", reqs[s].name>>)

C6_Witness ==
    \E s \in Slots :
        /\ reqs[s].name = "resize_image" /\ reqs[s].args # NoArgs /\ Answered(s)
        /\ reqs[s].pc = "idle"

\* The first text of the success responses of the handlers.
SuccessHeadings ==
    {"# Tailwind CSS Class Optimization Results", "# Custom Tailwind Theme - ",
     "# CSS to Tailwind Conversion", "# Generated ", "# ", "# Design Analysis Report",
     "# Design Improvement Suggestions", "# AI-Powered Design Improvement Suggestions",
     "# Component Preview"}

\* C7: for a call of a registered tool, its arguments present, the client
\* gets a response that is either a success content or a text that begins
\* with Error: ; no failure reaches the client in another form.
C7_SuccessOrErrorPrefix ==
    \A s \in Slots :
        (reqs[s].name \in ToolNames /\ reqs[s].args # NoArgs /\ Answered(s))
            => /\ reqs[s].outcome.kind = "response"
               /\ reqs[s].outcome.text[1] \in SuccessHeadings \cup {"Error: "}

\* C8: without the credential the provider client is never constructed and
\* no completion is requested, and every dual-path handler that ends has
\* run its manual engine once.
C8_NoCredentialNoProvider ==
    ~credential =>
        /\ genAI = "null"
        /\ \A s \in Slots :
               /\ reqs[s].calls = 0
               /\ reqs[s].completion = NoCompletion
               /\ reqs[s].pc # "awaiting"
               /\ (reqs[s].name \in DualPath /\ reqs[s].args # NoArgs /\ Answered(s))
                      => reqs[s].manual = 1

C8_Witness ==
    /\ ~credential
    /\ \A s \in Slots :
           reqs[s].name \in DualPath /\ reqs[s].args # NoArgs /\ Answered(s) /\ reqs[s].manual = 1

SameRequest(s, t) ==
    /\ s # t
    /\ Answered(s) /\ Answered(t)
    /\ reqs[s].name = reqs[t].name
    /\ reqs[s].args = reqs[t].args

\* C10, as the specification states it: with the credential absent, two
\* calls of any tool with identical input have the identical output or the
\* identical error.
C10_SameInputSameOutput ==
    ~credential =>
        \A s \in Slots : \A t \in Slots :
            SameRequest(s, t) => reqs[s].outcome = reqs[t].outcome

\* C10, as the code has it: with the credential absent, two calls of any
\* tool other than generate_preview with identical input have the identical
\* output or the identical error; the output of generate_preview depends on
\* what the headless browser did.
C10_SameInputSameOutputButPreview ==
    ~credential =>
        \A s \in Slots : \A t \in Slots :
            (SameRequest(s, t) /\ reqs[s].name # "generate_preview")
                => reqs[s].outcome = reqs[t].outcome

C10_Witness ==
    /\ ~credential
    /\ SameRequest("a", "b")
    /\ reqs["a"].name = "convert_to_tailwind"
    /\ reqs["a"].outcome.text[1] = "# CSS to Tailwind Conversion"
    /\ reqs["a"].pc = "idle" /\ reqs["b"].pc = "done"

(***************************************************************************)
(* Properties of the class-optimization manual engine (SpecOptimize).      *)
(***************************************************************************)
\* The tokens of a class attribute that belong to a conflict category.
InCategoryOf(attr, category) ==
    LET Belongs(cls) == MatchesCategory(cls, category)
    IN  SelectSeq(attr, Belongs)

\* The class attribute as it enters the conflict step: after the removal of
\* duplicates and redundant spacing when removeRedundant is set.
EnteringConflicts(attr, removeRedundant) ==
    IF removeRedundant THEN removeRedundantSpacing(Unique(attr)).classes ELSE attr

\* The class attributes of the input that have more than one token of the
\* category when they enter the conflict step.
Conflicting(category) ==
    {i \in 1..Len(mInput.html) :
        Len(InCategoryOf(EnteringConflicts(mInput.html[i], mInput.removeRedundant), category)) > 1}

EntriesFor(conflicts, category) ==
    {k \in 1..Len(conflicts) : conflicts[k].category = category}

\* C11: with mergeConflicts set, for either value of removeRedundant and
\* for token lists with repeated tokens, a class attribute that has more
\* than one token of a conflict category keeps exactly the last-occurring
\* of them in its optimized form, and one conflict entry is recorded for
\* the category.
C11_LastOfCategoryKept ==
    (mPc = "first" /\ mInput.mergeConflicts /\ Len(mInput.html) = 1)
        => \A n \in 1..Len(ConflictCategories) :
               LET category == ConflictCategories[n]
                   matching == InCategoryOf(EnteringConflicts(mInput.html[1],
                                                              mInput.removeRedundant), category)
               IN  Len(matching) > 1
                       => /\ InCategoryOf(mOutput[1].optimizedHtml[1], category)
                                = <<matching[Len(matching)]>>
                          /\ Cardinality(EntriesFor(mOutput[1].conflictsResolved, category)) = 1

\* C12: the README's example p-4 px-4 py-4 text-blue-500 text-blue-600 with
\* removeRedundant and mergeConflicts set keeps p-4, removes px-4 and py-4
\* and records them, keeps only text-blue-600 of the two colors and records
\* one conflict entry for them.
C12_ReadmeExample ==
    (mPc = "first" /\ mInput.html = <<ReadmeAttr>>
        /\ mInput.removeRedundant /\ mInput.mergeConflicts)
        => /\ mOutput[1].optimizedHtml = << <<P4, TEXT_BLUE_600>> >>
           /\ Includes(mOutput[1].removedClasses, PX4)
           /\ Includes(mOutput[1].removedClasses, PY4)
           /\ Len(mOutput[1].conflictsResolved) = 1
           /\ mOutput[1].conflictsResolved[1].kept = TEXT_BLUE_600

\* p-N or m-N, and the tokens of one axis of the same kind.
IsGeneralSpacing(cls, kind) ==
    /\ Len(cls) >= 3
    /\ StartsWith(cls, <<kind, "-">>)
    /\ \A i \in 3..Len(cls) : cls[i] \in Digits

IsAxisSpacing(cls, kind) ==
    StartsWith(cls, <<kind, "x", "-">>) \/ StartsWith(cls, <<kind, "y", "-">>)

\* C13: with removeRedundant set, a class attribute that has a general
\* padding token p-N or a general margin token m-N together with axis
\* tokens of the same kind loses the axis tokens, which are recorded as
\* removed, and keeps the general token, also with mergeConflicts set.
C13_AxisDroppedGeneralKept ==
    (mPc = "first" /\ mInput.removeRedundant /\ Len(mInput.html) = 1)
        => \A kind \in {"p", "m"} :
               \A i \in 1..Len(mInput.html[1]) : \A j \in 1..Len(mInput.html[1]) :
                   (IsGeneralSpacing(mInput.html[1][i], kind)
                       /\ IsAxisSpacing(mInput.html[1][j], kind))
                       => /\ ~Includes(mOutput[1].optimizedHtml[1], mInput.html[1][j])
                          /\ Includes(mOutput[1].removedClasses, mInput.html[1][j])
                          /\ Includes(mOutput[1].optimizedHtml[1], mInput.html[1][i])

\* C14: the engine run again on the optimized markup of a first run, with
\* the same flags, removes nothing and resolves nothing, and its optimized
\* markup is its input.
C14_SecondRunFixpoint ==
    mPc = "second"
        => /\ mOutput[2].removedClasses = <<>>
           /\ mOutput[2].conflictsResolved = <<>>
           /\ mOutput[2].optimizedHtml = mOutput[1].optimizedHtml

\* a is b without some of its tokens: the tokens of a, in their order, are
\* tokens of b in that order.
RECURSIVE IsSubsequence(_, _)
IsSubsequence(a, b) ==
    IF a = <<>> THEN TRUE
    ELSE IF b = <<>> THEN FALSE
    ELSE IF Head(a) = Head(b) THEN IsSubsequence(Tail(a), Tail(b))
    ELSE IsSubsequence(a, Tail(b))

\* C27: for every class attribute and every combination of the three
\* flags the token list of the attribute in the optimized markup is a
\* subsequence of its original token list (no token added, none
\* reordered), and with the three flags off it is the original list.
C27_TokensSubsequence ==
    mPc = "first"
        => /\ Len(mOutput[1].optimizedHtml) = Len(mInput.html)
           /\ \A i \in 1..Len(mInput.html) :
                  IsSubsequence(mOutput[1].optimizedHtml[i], mInput.html[i])
           /\ (~mInput.removeRedundant /\ ~mInput.mergeConflicts /\ ~mInput.suggestAlternatives)
                  => mOutput[1].optimizedHtml = mInput.html

\* The number of occurrences of a token in a list of tokens.
Occurrences(tokens, cls) == Cardinality({i \in 1..Len(tokens) : tokens[i] = cls})

\* C28: with removeRedundant set and mergeConflicts not, the removed list
\* accounts exactly for what was removed: over the class attributes of the
\* markup, the kept tokens together with the tokens recorded as removed
\* are the original tokens, each as often as it occurs there.
C28_RemovedAccountsExactly ==
    (mPc = "first" /\ mInput.removeRedundant /\ ~mInput.mergeConflicts)
        => \A i \in 1..Len(Flatten(mInput.html)) :
               Occurrences(Flatten(mOutput[1].optimizedHtml), Flatten(mInput.html)[i])
                   + Occurrences(mOutput[1].removedClasses, Flatten(mInput.html)[i])
                   = Occurrences(Flatten(mInput.html), Flatten(mInput.html)[i])

\* The result of the engine on the input of the run with the other value of
\* suggestAlternatives.
OtherSuggestRun ==
    performManualOptimization(mInput.html, mInput.removeRedundant, mInput.mergeConflicts,
                              ~mInput.suggestAlternatives)

\* C21: for any markup and any values of removeRedundant and
\* mergeConflicts, the optimized markup, the removed list and the list of
\* resolved conflicts are the same with suggestAlternatives set as without
\* it; only the suggestions differ, and there are none without it.
C21_SuggestionsOnlyAnnotate ==
    mPc = "first"
        => /\ mOutput[1].optimizedHtml = OtherSuggestRun.optimizedHtml
           /\ mOutput[1].removedClasses = OtherSuggestRun.removedClasses
           /\ mOutput[1].conflictsResolved = OtherSuggestRun.conflictsResolved
           /\ (~mInput.suggestAlternatives => mOutput[1].suggestions = <<>>)

C21_Witness ==
    /\ mPc = "first"
    /\ mInput.suggestAlternatives
    /\ mInput.removeRedundant
    /\ Len(mOutput[1].suggestions) >= 2
    /\ mOutput[1].removedClasses # <<>>
    /\ mOutput[1].optimizedHtml # mInput.html
    /\ OtherSuggestRun.suggestions = <<>>

(***************************************************************************)
(* Properties of the CSS conversion manual engine (SpecConvert).           *)
(***************************************************************************)
\* The declarations of the code of the run, as written: property and value
\* trimmed, the value whole.
WrittenDecls ==
    Flatten([b \in 1..Len(mInput.code) |->
                [i \in 1..Len(mInput.code[b].decls) |->
                    [property |-> Trim(mInput.code[b].decls[i].property),
                     value |-> Trim(mInput.code[b].decls[i].value)]]])

\* The notes has the conversion of the declaration to a class.
NotedAsConverted(d) ==
    \E k \in 1..Len(mOutput[1].notes) :
        StartsWith(mOutput[1].notes[k].v,
                   <<"Converted ">> \o d.property \o <<": ">> \o d.value \o <<" -> ">>)

RecordedAsUnconverted(d) ==
    Includes(mOutput[1].unconverted, Str(d.property \o <<": ">> \o d.value))

\* C15: every declaration property: value of a rule of CSS code is either
\* converted to a class or recorded as "property: value" in the unconverted
\* list, never both and never neither.
C15_ConvertedOrRecorded ==
    (mPc = "first" /\ mInput.format = "css")
        => \A i \in 1..Len(WrittenDecls) :
               NotedAsConverted(WrittenDecls[i]) # RecordedAsUnconverted(WrittenDecls[i])

\* The code of the run is one padding or margin declaration of n pixels,
\* written in the given form.
SpacingRun(kind, value) ==
    /\ mPc = "first"
    /\ mInput.format = "css"
    /\ mInput.code = <<Rule(<<Decl(kind, value)>>)>>

\* The class of the rem step of a number of pixels, <<>> when the pixels
\* are no step: pixels / 16 in 0.25, 0.5, 0.75, 1, 1.25, 1.5, 2.
StepClass(prefix, n) ==
    IF n \in {4, 8, 12, 16, 20, 24} THEN <<prefix>> \o DecimalDigits(n \div 4)
    ELSE IF n = 32 THEN <<prefix, "8">>
    ELSE <<>>

\* The run converted its declaration to exactly the class, or to none and
\* recorded it as unconverted.
SpacingOutcome(kind, value, class) ==
    IF class = <<>>
    THEN /\ mOutput[1].notes = <<>>
         /\ mOutput[1].unconverted = <<Str(<<kind, ": ">> \o value)>>
    ELSE /\ mOutput[1].unconverted = <<>>
         /\ mOutput[1].notes =
                <<Str(<<"Converted ", kind, ": ">> \o value \o <<" -> ">> \o class)>>

\* C19: a padding or margin declaration gets a class exactly when its
\* number divided by 16 is one of 0.25, 0.5, 0.75, 1, 1.25, 1.5, 2, namely
\* p-1, p-2, p-3, p-4, p-5, p-6, p-8 (m-1 ... m-8); every other number,
\* also one next to a step or with a fraction, is unconverted.
C19_SpacingSteps ==
    \A kind \in {"padding", "margin"} : \A n \in 0..MaxPx :
        LET prefix == IF kind = "padding" THEN "p-" ELSE "m-"
            digits == DecimalDigits(n)
        IN  /\ SpacingRun(kind, digits \o <<"px">>)
                => SpacingOutcome(kind, digits \o <<"px">>, StepClass(prefix, n))
            /\ SpacingRun(kind, digits \o <<".", "0", "px">>)
                => SpacingOutcome(kind, digits \o <<".", "0", "px">>, StepClass(prefix, n))
            /\ SpacingRun(kind, digits \o <<"rem">>)
                => SpacingOutcome(kind, digits \o <<"rem">>, StepClass(prefix, n))
            /\ SpacingRun(kind, digits \o <<".", "5", "px">>)
                => SpacingOutcome(kind, digits \o <<".", "5", "px">>, <<>>)
            /\ (n > 0 /\ SpacingRun(kind, <<"-">> \o digits \o <<"px">>))
                => SpacingOutcome(kind, <<"-">> \o digits \o <<"px">>, <<>>)

C19_Witness ==
    /\ SpacingRun("margin", <<"2", "0", "px">>)
    /\ mOutput[1].notes # <<>>

(***************************************************************************)
(* Properties of the manual layout engine (SpecLayout).                    *)
(***************************************************************************)
\* The HTML layout whose grid container carries the grid template and
\* whose sections are the given ones, in order.
HTMLLayoutOf(type, sections, gridTemplate) ==
    <<"<!DOCTYPE html>", "<title>">> \o Capitalize(type)
        \o <<" Layout</title>", "<div class=min-h-screen grid ", gridTemplate, ">">>
        \o Flatten([i \in 1..Len(sections) |-> HTMLSection(type, sections[i])])
        \o <<"</div>", "</html>">>

\* C16: for a type and complexity of the layout table the sections the
\* engine lays out are exactly the table's section list for them, and the
\* grid container carries the table's grid template (HTML framework).
C16_TableSectionsLaidOut ==
    (mPc = "first" /\ mInput.type \in LayoutTypes /\ mInput.framework = "html")
        => /\ ~mOutput[1].thrown
           /\ mOutput[1].value =
                  HTMLLayoutOf(mInput.type, LAYOUT_STRUCTURE(mInput.type, mInput.complexity),
                               LAYOUT_TEMPLATES(mInput.type, mInput.complexity))

\* The generic layout: one block per section, in the order of the
\* sections, a component tag for react and a titled section otherwise.
GenericBlock(section, framework) ==
    IF framework = "react" THEN <<"<", section, " />">>
    ELSE <<"<section>", "<h2>">> \o Capitalize(section) \o <<"</h2>", "</section>">>

GenericLayoutOf(sections, framework) ==
    <<IF framework = "react" THEN "<div className=min-h-screen>" ELSE "<div class=min-h-screen>">>
        \o Join([i \in 1..Len(sections) |-> GenericBlock(sections[i], framework)], <<"\n">>)
        \o <<"</div>">>

\* C22: for a type without entry in the layout table, whatever string it
\* is, the engine does not fail and returns the generic layout with one
\* generic block per requested section, in the requested order, for every
\* complexity and framework.
C22_UnknownTypeGeneric ==
    (mPc = "first" /\ mInput.type \notin LayoutTypes)
        => /\ ~mOutput[1].thrown
           /\ mOutput[1].value = GenericLayoutOf(mInput.sections, mInput.framework)

(***************************************************************************)
(* Further properties of the dispatcher and its handlers (Spec).           *)
(***************************************************************************)
\* The component types of the input schema that COMPONENT_TEMPLATES lacks.
NoTemplateTypes == {"form", "navigation", "modal", "table", "custom"}

\* C17: on the manual path, generate_component for a type without entry
\* in the template table runs the template engine once and the client gets
\* Error: Failed to generate component: Template not found for component
\* type: <type>, never a generated component.
C17_TemplateNotFound ==
    \A s \in Slots :
        (~credential /\ reqs[s].name = "generate_component" /\ reqs[s].args # NoArgs
            /\ Arg(reqs[s].args, "type", "undefined") \in NoTemplateTypes /\ Answered(s))
            => /\ reqs[s].manual = 1
               /\ reqs[s].outcome =
                      Response(<<"Error: ", "Failed to generate component: ",
                                 "Template not found for component type: ", reqs[s].args.type>>)

C17_Witness ==
    \E s \in Slots : \E t \in Slots :
        /\ ~credential
        /\ reqs[s].name = "generate_component" /\ reqs[s].args # NoArgs
        /\ Arg(reqs[s].args, "type", "undefined") = "form" /\ Answered(s)
        /\ reqs[t].name = "generate_component" /\ reqs[t].args # NoArgs
        /\ Arg(reqs[t].args, "type", "undefined") = "custom" /\ Answered(t)

\* The request of slot s has no arguments or names no registered tool.
InvalidRequest(s) ==
    /\ reqs[s].name # ""
    /\ (reqs[s].args = NoArgs \/ reqs[s].name \notin ToolNames)

\* C18: for a request without arguments or for an unknown tool the switch
\* calls no handler: no manual engine runs, no completion is requested and
\* the request never waits for the provider or the browser.
C18_InvalidRejectedBeforeHandler ==
    \A s \in Slots :
        InvalidRequest(s)
            => /\ ~reqs[s].invoked
               /\ reqs[s].calls = 0
               /\ reqs[s].manual = 0
               /\ reqs[s].completion = NoCompletion
               /\ reqs[s].pc \in {"done", "idle"}
               /\ reqs[s].outcome.kind \in {"raised", "response"}

C18_Witness ==
    \E s \in Slots : \E t \in Slots :
        /\ credential
        /\ reqs[s].name = "optimize_classes" /\ reqs[s].args = NoArgs /\ Answered(s)
        /\ reqs[t].name \notin ToolNames /\ reqs[t].args # NoArgs /\ Answered(t)
        /\ ~reqs[s].invoked /\ ~reqs[t].invoked


(***************************************************************************)
(* Properties of the manual theme engine.                                  *)
(***************************************************************************)
\* The shade levels of a ramp, in the order of its members.
LevelsOf(ramp) == [i \in 1..Len(Entries(ramp)) |-> Entries(ramp)[i][1]]

\* The levels are the first ones of the level list, in its order.
InLevelOrder(levels) ==
    /\ Len(levels) <= Len(ShadeLevels)
    /\ \A i \in 1..Len(levels) : levels[i] = DecimalDigits(ShadeLevels[i])

\* C20: for every colorCount from 5 to 11 the primary ramp of the manual
\* theme has exactly colorCount shade levels, the first ones of 50, 100,
\* 200, ..., 900 in that order, and the neutral ramp has its ten levels.
C20_PrimaryRampHasCountLevels ==
    (mPc = "first" /\ mInput.colorCount \in MinColorCount..MaxColorCount)
        => /\ ~mOutput[1].thrown
           /\ Len(LevelsOf(Get(Get(mOutput[1].value, <<"colors">>), <<"primary">>)))
                  = mInput.colorCount
           /\ InLevelOrder(LevelsOf(Get(Get(mOutput[1].value, <<"colors">>), <<"primary">>)))
           /\ Len(LevelsOf(Get(Get(mOutput[1].value, <<"colors">>), <<"neutral">>))) = 10
           /\ InLevelOrder(LevelsOf(Get(Get(mOutput[1].value, <<"colors">>), <<"neutral">>)))


(***************************************************************************)
(* Properties of the provider handle and of concurrent requests (Spec).    *)
(***************************************************************************)
\* The request of slot s has called callGemini.
CalledGemini(r) == r.name \in DualPath /\ r.calls > 0

\* C23: with the credential configured, over any sequence of callGemini
\* calls the provider handle is constructed at most once, by the first
\* call, and every later call finds that handle: once set, genAI is never
\* assigned again and no further handle is constructed.
C23_HandleConstructedOnce ==
    [][/\ constructions' <= 1
       /\ (genAI # "null" => (genAI' = genAI /\ constructions' = constructions))
       /\ \A s \in Slots :
              (credential /\ CalledGemini(reqs'[s]))
                  => (genAI' # "null" /\ constructions' = 1)]_vars

C23_Witness ==
    /\ credential
    /\ constructions = 1
    /\ genAI # "null"
    /\ CalledGemini(reqs["a"]) /\ reqs["a"].pc = "idle" /\ reqs["a"].outcome.kind = "response"
    /\ CalledGemini(reqs["b"]) /\ reqs["b"].pc = "awaiting"


\* The end of a handler that runs alone on the arguments of the request r
\* and gets the provider's answer r.completion, if it asks for one.
AloneFinish(r) ==
    IF r.calls = 0 THEN Start(r.name, r.args, isGeminiAvailable(credential))
    ELSE Resume(r.name, r.args, r.completion)

\* C24: when two requests are in flight together and interleave at the
\* await of the completion, the response of each is the response of its
\* handler run alone on its arguments with the same answer of the
\* provider, and its manual engine has run as often as it runs alone.
C24_ConcurrentAsAlone ==
    \A s \in Slots :
        (Answered(s) /\ reqs[s].invoked /\ reqs[s].name \in DualPath \cup OwnClient)
            => /\ reqs[s].outcome = DispatchCatch(AloneFinish(reqs[s]).result)
               /\ reqs[s].manual = AloneFinish(reqs[s]).manual

\* Both requests have waited for the provider at the same time, for the same
\* tool with different arguments, and both are answered: one from the
\* provider's text, the other by its fallback.
C24_Witness ==
    /\ credential
    /\ reqs["a"].name = "optimize_classes" /\ reqs["b"].name = "optimize_classes"
    /\ reqs["a"].args # reqs["b"].args
    /\ reqs["a"].calls = 1 /\ reqs["b"].calls = 1
    /\ reqs["a"].pc = "done" /\ reqs["b"].pc = "done"
    /\ reqs["a"].completion.ok /\ reqs["a"].manual = 0
    /\ reqs["b"].manual = 1


(***************************************************************************)
(* Progress of the dispatcher (SpecLive).                                  *)
(***************************************************************************)
\* C25: every request the dispatcher has received brings its slot back to
\* idle with one outcome, a response or a raised error, when the awaited
\* completion returns or fails; the outcome of a handler that has ended is
\* not changed before it is handed over.
C25_RequestEndsIdle ==
    /\ \A s \in Slots :
           (reqs[s].pc # "idle")
               ~> (reqs[s].pc = "idle" /\ reqs[s].outcome.kind \in {"response", "raised"})
    /\ [][\A s \in Slots :
              (reqs[s].pc = "done" /\ reqs'[s] # reqs[s])
                  => (reqs'[s] = [reqs[s] EXCEPT !.pc = "idle"]
                      /\ reqs[s].outcome.kind \in {"response", "raised"})]_vars

C25_Witness ==
    /\ reqs["a"].pc = "idle" /\ reqs["a"].calls = 1 /\ reqs["a"].outcome.kind = "response"
    /\ reqs["b"].pc = "idle" /\ reqs["b"].args = NoArgs /\ reqs["b"].outcome.kind = "raised"


(***************************************************************************)
(* Properties of IntegrationManager.generateWithBestAvailable              *)
(* (SpecIntegrate).                                                        *)
(***************************************************************************)
\* The positions in the preferred order of the registered integrations
\* whose generation succeeds.
Succeeding ==
    {i \in 1..Len(preferredOrder) :
        /\ preferredOrder[i] \in mInput.registered
        /\ mInput.behaviour[preferredOrder[i]] = "answers"}

\* C26: the integrations are tried in the order gemini, openai, claude;
\* after a failed generation the next registered integration is tried, so
\* that the result is the one of the first integration in that order whose
\* generation succeeded, and 'No AI integrations available' is thrown only
\* when none succeeded.
C26_FirstSuccessReturned ==
    mPc = "first"
        => /\ Succeeding # {}
                  => mOutput.result =
                         APIResponse(preferredOrder[CHOOSE i \in Succeeding :
                                                        \A j \in Succeeding : i <= j], TRUE)
           /\ mOutput.result.thrown => Succeeding = {}
           /\ \A i \in 1..Len(mOutput.tried) : \A j \in 1..Len(mOutput.tried) :
                  (i < j) => \E k \in 1..Len(preferredOrder) : \E l \in 1..Len(preferredOrder) :
                                 /\ k < l
                                 /\ preferredOrder[k] = mOutput.tried[i]
                                 /\ preferredOrder[l] = mOutput.tried[j]


(***************************************************************************)
(* Properties of the tool descriptors (SpecDefaults).                      *)
(***************************************************************************)
\* C29: for every tool and every optional field, the default that the
\* descriptor of the tool declares is the default its handler applies: a
\* request that omits the field is answered as the request that sets the
\* field to the declared default.
C29_DeclaredDefaultApplied ==
    mPc = "second" => mOutput[1] = mOutput[2]


(***************************************************************************)
(* Properties of the preview (SpecPreview).                                *)
(***************************************************************************)
\* C30: when generatePreview has returned, every browser it launched is
\* closed, whichever step threw.
C30_LaunchedBrowserClosed ==
    mPc = "returned" => mOutput.open = 0

====
